---- MODULE Spec2Model ----
(***************************************************************************)
(* Model of the document vault's FileService (app/files/domain/service.py) *)
(* over its two collaborators: the FileRepository (the "files" table) and  *)
(* the S3StorageService (the bucket).                                      *)
(*                                                                         *)
(* A service call is a coroutine.  Each action below is one collaborator   *)
(* call of that coroutine (one "await") together with the straight-line    *)
(* code that follows it up to the next one; call[p].pc names the await the *)
(* coroutine is suspended at.  Under Spec one call runs at a time.         *)
(*                                                                         *)
(* Fault model.  Every S3StorageService method has an explicit raise path  *)
(* (s3_storage.py 50-51, 66-67, 80-81, 95-97), PdfMerger raises on bytes   *)
(* that are not a PDF, and the repository writes (create, update, delete)  *)
(* are database statements that can fail.  Each of these calls therefore   *)
(* takes a nondeterministic fault flag.  A repository read is a total      *)
(* function of the table.  A suspended coroutine can be cancelled by its   *)
(* caller: asyncio raises CancelledError at the pending await.             *)
(*                                                                         *)
(* The AuthenticationService (app/authentication/domain/service.py) is     *)
(* modelled the same way over the users table and a session store, which   *)
(* is the relational SessionRepository or the RedisSessionRepository; the  *)
(* clock that expires_at and the Redis time to live are measured against   *)
(* is a variable that Tick advances.  Store calls of this module do not    *)
(* fail, except an insert that a unique column rejects.  Under AuthSpec    *)
(* one call runs at a time and the clock may advance between any two of    *)
(* its steps.                                                              *)
(***************************************************************************)
EXTENDS Integers, Sequences, FiniteSets, TLC

\* ------------------------------------------------------------------ bounds
\* Number of file ids the service can hand out (uuid4 never repeats one).
MaxFiles == 3
\* Longest file_ids list given to merge_files.
MaxMergeLen == 2
\* Number of session tokens the service can hand out.
MaxTokens == 2
\* Last value of the clock.
MaxTime == 3
\* Number of external ids create_with_external_id draws from (1000000000 in
\* the source).
MaxExternalId == 2

\* ---------------------------------------------------------------- constants
\* timedelta(hours=24), in clock ticks of twelve hours
SessionLifetime == 2
\* 24 * 3600 seconds, in the same ticks
RedisTtl == 2

\* ------------------------------------------------------------------ inputs
\* external ids of the registered users (rows of the "users" table)
Users == {1, 2}
\* owner_external_id values given to create_file: the users and an id that is
\* no user's
OwnerIds == {1, 2, 3}
FileIds == 1..MaxFiles
PageCounts == {3, 5}
FileNames == {"report"}
\* Uploaded bytes: a byte string is a sequence of chunks.  <<>> is the empty
\* byte string, "junk" a chunk that is not PDF data, "A" a one-document PDF.
Contents == {<<"junk">>, <<"A">>}
ContentTypes == {"application/pdf", "text/plain"}
Procs == {1, 2}
Usernames == {"ann", "bob"}
Emails == {"ann@x.org", "bob@x.org"}
Passwords == {"pw1", "pw2"}
Tokens == 1..MaxTokens

\* ---------------------------------------------------------------- entities
NoPath == <<>>

\* Absent entity (Python None)
NoFile ==
  [file_id |-> 0, name |-> "", amount_of_pages |-> 0, description |-> "",
   file_path |-> NoPath, is_uploaded |-> FALSE, owner_external_id |-> 0]

\* mutant: every call produces the same id
uuid4_repeat(n) == 1

\* uuid.uuid4(): a value no earlier call has produced
uuid4(n) == n

\* A row as File.create stores it: file_path NULL, is_uploaded default False
NewRow(file_data) ==
  [file_id |-> file_data.file_id, name |-> file_data.name,
   amount_of_pages |-> file_data.amount_of_pages,
   description |-> file_data.description,
   file_path |-> NoPath, is_uploaded |-> FALSE,
   owner_external_id |-> file_data.owner_external_id]

\* ------------------------------------------------------- FileRepository
\* create_file raises ValueError when the owner is no user, and the unique
\* file_id column rejects a duplicate.
repo_create_file_ok(recs, file_data) ==
  /\ file_data.owner_external_id \in Users
  /\ file_data.file_id \notin DOMAIN recs

repo_create_file(recs, file_data) ==
  recs @@ (file_data.file_id :> NewRow(file_data))

repo_get_file_by_id(recs, file_id) ==
  IF file_id \in DOMAIN recs THEN recs[file_id] ELSE NoFile

\* mutant: the owner filter is left out of the query
repo_get_files_by_owner_all(recs, owner_external_id) ==
  IF owner_external_id \notin Users THEN {}
  ELSE {recs[f] : f \in DOMAIN recs}

repo_get_files_by_owner(recs, owner_external_id) ==
  IF owner_external_id \notin Users THEN {}
  ELSE {recs[f] : f \in {g \in DOMAIN recs :
                           recs[g].owner_external_id = owner_external_id}}

\* mutant: saves the path but not the flag
repo_update_file_path_noflag(recs, file_id, file_path) ==
  IF file_id \notin DOMAIN recs THEN recs
  ELSE [recs EXCEPT ![file_id].file_path = file_path]

\* mutant: saves a row rebuilt with the first user as owner
repo_update_file_path_reparent(recs, file_id, file_path) ==
  IF file_id \notin DOMAIN recs THEN recs
  ELSE [recs EXCEPT ![file_id].file_path = file_path,
                    ![file_id].is_uploaded = TRUE,
                    ![file_id].owner_external_id = 1]

\* mutant: the update also reaches every row that is not yet uploaded
repo_update_file_path_unuploaded(recs, file_id, file_path) ==
  IF file_id \notin DOMAIN recs THEN recs
  ELSE [f \in DOMAIN recs |->
          IF f = file_id \/ ~recs[f].is_uploaded
          THEN [recs[f] EXCEPT !.file_path = file_path, !.is_uploaded = TRUE]
          ELSE recs[f]]

repo_update_file_path(recs, file_id, file_path) ==
  IF file_id \notin DOMAIN recs THEN recs
  ELSE [recs EXCEPT ![file_id].file_path = file_path,
                    ![file_id].is_uploaded = TRUE]

repo_delete_file(recs, file_id) ==
  [f \in DOMAIN recs \ {file_id} |-> recs[f]]

\* ------------------------------------------------------ S3StorageService
\* key = f"files/{file_id}.pdf"
s3_key(file_id) == <<"files/", file_id, ".pdf">>

\* mutant: an existing object is not overwritten
s3_upload_file_keep(bl, file_id, content) ==
  [k \in DOMAIN bl \cup {s3_key(file_id)} |->
     IF k \in DOMAIN bl THEN bl[k] ELSE content]

s3_upload_file(bl, file_id, content) ==
  [k \in DOMAIN bl \cup {s3_key(file_id)} |->
     IF k = s3_key(file_id) THEN content ELSE bl[k]]

s3_file_exists(bl, file_id) == s3_key(file_id) \in DOMAIN bl

\* mutant: delete_object is never issued
s3_delete_file_noop(bl, file_id) == bl

s3_delete_file(bl, file_id) ==
  [k \in DOMAIN bl \ {s3_key(file_id)} |-> bl[k]]

\* ------------------------------------------------------------ PdfMerger
\* append parses the stream: it raises on bytes that are not a PDF
IsPdf(content) ==
  /\ content # <<>>
  /\ \A i \in 1..Len(content) : content[i] # "junk"

\* download_file returns None on NoSuchKey; merge_files tests "not file_content",
\* which None and the empty byte string both satisfy, so None is <<>> here.
s3_download_file(bl, file_id) ==
  IF s3_key(file_id) \in DOMAIN bl THEN bl[s3_key(file_id)] ELSE <<>>

RECURSIVE Combine(_)
\* merger.write: the appended documents, in the order they were appended
Combine(streams) ==
  IF streams = <<>> THEN <<>> ELSE Head(streams) \o Combine(Tail(streams))

\* ------------------------------------------------------------------ state
VARIABLES
  records,   \* the "files" table: file_id -> row
  blobs,     \* the bucket: key -> bytes
  nextId,    \* how many ids uuid4 has produced, plus one
  call       \* per caller: the FileService coroutine it runs

\* the authentication module's state (app/authentication)
VARIABLES
  users,          \* the "users" table: id -> row
  sessions,       \* the "sessions" table: token -> row
  redis,          \* the Redis keyspace: key -> value and expiry deadline
  now,            \* the clock datetime.utcnow() reads
  session_store,  \* the ISessionRepository the service was built with
  nextUserId,     \* the users table's next primary key
  nextToken,      \* how many tokens secrets.token_hex has produced, plus one
  auth            \* per caller: the AuthenticationService coroutine it runs

file_vars == <<records, blobs, nextId, call>>
auth_vars == <<users, sessions, redis, now, session_store, nextUserId,
               nextToken, auth>>
vars == <<file_vars, auth_vars>>

\* A coroutine frame.  pc "done" with op "idle" is a caller that has not
\* called yet; pc "done" otherwise is a call that has returned or raised.
IdleCall ==
  [op |-> "idle", pc |-> "done",
   file_id |-> 0, requester |-> 0, file_ids |-> <<>>,
   content |-> <<>>, content_type |-> "",
   file_entity |-> NoFile, files_to_merge |-> <<>>, total_pages |-> 0,
   merged_file |-> NoFile, idx |-> 0, streams |-> <<>>,
   storage_path |-> NoPath,
   outcome |-> "none", result |-> NoFile, files |-> {}, deleted |-> FALSE,
   failed_step |-> "none", log |-> <<>>,
   pre_records |-> <<>>, pre_blobs |-> <<>>]

Begin(op) ==
  [IdleCall EXCEPT !.op = op, !.pc = "start",
                   !.pre_records = records, !.pre_blobs = blobs]

Logged(c, entry) == [c EXCEPT !.log = Append(c.log, entry)]

\* the call ends: it returns result (outcome "ok") or raises outcome
Done(c, outcome, result) ==
  [c EXCEPT !.pc = "done", !.outcome = outcome, !.result = result]

\* ------------------------------------------------------------ FileService
\* mutant: a non-owner is told the file does not exist
get_file_outcome_hide(recs, file_id, owner_external_id) ==
  LET e == repo_get_file_by_id(recs, file_id) IN
  IF e = NoFile \/ e.owner_external_id # owner_external_id
  THEN "FileNotFoundError" ELSE "ok"

\* get_file: what it raises, or "ok" when it returns the entity
get_file_outcome(recs, file_id, owner_external_id) ==
  LET e == repo_get_file_by_id(recs, file_id) IN
  IF e = NoFile THEN "FileNotFoundError"
  ELSE IF e.owner_external_id # owner_external_id
       THEN "UnauthorizedFileAccessError"
       ELSE "ok"

GetFile(p) ==
  \E file_id \in FileIds, requester \in Users :
    LET c == Logged([Begin("get_file") EXCEPT !.file_id = file_id,
                                              !.requester = requester],
                    <<"repo.get_file_by_id", file_id>>)
        o == get_file_outcome(records, file_id, requester)
    IN /\ call[p].op = "idle"
       /\ call' = [call EXCEPT ![p] =
                     Done(c, o, IF o = "ok"
                                THEN repo_get_file_by_id(records, file_id)
                                ELSE NoFile)]
       /\ UNCHANGED <<records, blobs, nextId, auth_vars>>

\* get_user_files: the repository's list, returned as it is.  The query has
\* no ORDER BY, so the list is a collection without an order here.
GetUserFiles(p) ==
  \E owner \in OwnerIds :
    LET c == Logged([Begin("get_user_files") EXCEPT !.requester = owner],
                    <<"repo.get_files_by_owner", owner>>)
    IN /\ call[p].op = "idle"
       /\ call' = [call EXCEPT ![p] =
                     [Done(c, "ok", NoFile) EXCEPT
                        !.files = repo_get_files_by_owner(records, owner)]]
       /\ UNCHANGED <<records, blobs, nextId, auth_vars>>

\* the dict create_file hands to the repository
create_file_data(file_id, name, amount_of_pages, description, owner_external_id) ==
  [file_id |-> file_id, name |-> name, amount_of_pages |-> amount_of_pages,
   description |-> description, owner_external_id |-> owner_external_id]

\* what the repository's create_file raises, or "ok"
create_file_outcome(recs, file_data, fault) ==
  IF file_data.owner_external_id \notin Users THEN "ValueError"
  ELSE IF fault \/ ~repo_create_file_ok(recs, file_data) THEN "Exception"
  ELSE "ok"

CreateFile(p) ==
  \E name \in FileNames, pages \in PageCounts, owner \in OwnerIds,
     fault \in BOOLEAN :
    LET d == create_file_data(uuid4(nextId), name, pages, "", owner)
        c == Logged([Begin("create_file") EXCEPT !.file_id = d.file_id,
                                                 !.requester = owner],
                    <<"repo.create_file", d.file_id>>)
        o == create_file_outcome(records, d, fault)
    IN /\ call[p].op = "idle"
       /\ nextId <= MaxFiles
       /\ nextId' = nextId + 1
       /\ records' = IF o = "ok" THEN repo_create_file(records, d) ELSE records
       /\ call' = [call EXCEPT ![p] =
                     Done(c, o, IF o = "ok" THEN NewRow(d) ELSE NoFile)]
       /\ UNCHANGED <<blobs, auth_vars>>

\* mutant: the content type is validated before the ownership-checked get
upload_check_type_first(recs, file_id, owner_external_id, content_type) ==
  IF content_type # "application/pdf" THEN "ValueError"
  ELSE get_file_outcome(recs, file_id, owner_external_id)

\* mutant: the content type is not looked at
upload_check_any_type(recs, file_id, owner_external_id, content_type) ==
  get_file_outcome(recs, file_id, owner_external_id)

\* upload_file_content up to its first storage call: what it raises, or "ok"
upload_check(recs, file_id, owner_external_id, content_type) ==
  LET o == get_file_outcome(recs, file_id, owner_external_id) IN
  IF o # "ok" THEN o
  ELSE IF content_type # "application/pdf" THEN "ValueError"
  ELSE "ok"

\* upload_file_content: get_file, then the content-type test
UploadStart(p) ==
  \E file_id \in FileIds, requester \in Users, content_type \in ContentTypes :
    LET c == Logged([Begin("upload_file_content") EXCEPT
                       !.file_id = file_id, !.requester = requester,
                       !.content_type = content_type],
                    <<"repo.get_file_by_id", file_id>>)
        o == upload_check(records, file_id, requester, content_type)
    IN /\ call[p].op = "idle"
       /\ call' = [call EXCEPT ![p] =
                     IF o # "ok" THEN Done(c, o, NoFile)
                     ELSE [c EXCEPT !.pc = "u_put",
                                    !.file_entity =
                                       repo_get_file_by_id(records, file_id)]]
       /\ UNCHANGED <<records, blobs, nextId, auth_vars>>

\* storage_service.upload_file(file_id, file_content): file_content, the
\* caller's bytes, is first read here
UploadPut(p) ==
  \E fault \in BOOLEAN, content \in Contents :
    LET c == Logged([call[p] EXCEPT !.content = content],
                    <<"storage.upload_file", call[p].file_id>>) IN
    /\ call[p].pc = "u_put"
    /\ blobs' = IF fault THEN blobs
                ELSE s3_upload_file(blobs, c.file_id, c.content)
    /\ call' = [call EXCEPT ![p] =
                  IF fault THEN Done(c, "Exception", NoFile)
                  ELSE [c EXCEPT !.pc = "u_update",
                                 !.storage_path = s3_key(c.file_id)]]
    /\ UNCHANGED <<records, nextId, auth_vars>>

\* file_repo.update_file_path, then the entity is patched and returned
UploadUpdate(p) ==
  \E fault \in BOOLEAN :
    LET c == Logged(call[p], <<"repo.update_file_path", call[p].file_id>>) IN
    /\ call[p].pc = "u_update"
    /\ records' = IF fault THEN records
                  ELSE repo_update_file_path(records, c.file_id, c.storage_path)
    /\ call' = [call EXCEPT ![p] =
                  IF fault THEN Done(c, "Exception", NoFile)
                  ELSE Done(c, "ok",
                            [c.file_entity EXCEPT !.file_path = c.storage_path,
                                                  !.is_uploaded = TRUE])]
    /\ UNCHANGED <<blobs, nextId, auth_vars>>

\* mutant: the blob is left alone
delete_first_call_row(file_entity) == "d_row"

\* if file_entity.is_uploaded: the storage call comes first
delete_first_call(file_entity) ==
  IF file_entity.is_uploaded THEN "d_blob" ELSE "d_row"

\* delete_file: get_file, then the is_uploaded test picks the next call
DeleteStart(p) ==
  \E file_id \in FileIds, requester \in Users :
    LET c == Logged([Begin("delete_file") EXCEPT !.file_id = file_id,
                                                 !.requester = requester],
                    <<"repo.get_file_by_id", file_id>>)
        o == get_file_outcome(records, file_id, requester)
        e == repo_get_file_by_id(records, file_id)
    IN /\ call[p].op = "idle"
       /\ call' = [call EXCEPT ![p] =
                     IF o # "ok" THEN Done(c, o, NoFile)
                     ELSE [c EXCEPT !.file_entity = e,
                                    !.pc = delete_first_call(e)]]
       /\ UNCHANGED <<records, blobs, nextId, auth_vars>>

\* storage_service.delete_file(file_id)
DeleteBlob(p) ==
  \E fault \in BOOLEAN :
    LET c == Logged(call[p], <<"storage.delete_file", call[p].file_id>>) IN
    /\ call[p].pc = "d_blob"
    /\ blobs' = IF fault THEN blobs ELSE s3_delete_file(blobs, c.file_id)
    /\ call' = [call EXCEPT ![p] =
                  IF fault THEN Done(c, "Exception", NoFile)
                  ELSE [c EXCEPT !.pc = "d_row"]]
    /\ UNCHANGED <<records, nextId, auth_vars>>

\* file_repo.delete_file(file_id): its bool is what delete_file returns
DeleteRow(p) ==
  \E fault \in BOOLEAN :
    LET c == Logged(call[p], <<"repo.delete_file", call[p].file_id>>) IN
    /\ call[p].pc = "d_row"
    /\ records' = IF fault THEN records ELSE repo_delete_file(records, c.file_id)
    /\ call' = [call EXCEPT ![p] =
                  IF fault THEN Done(c, "Exception", NoFile)
                  ELSE [Done(c, "ok", NoFile) EXCEPT
                          !.deleted = c.file_id \in DOMAIN records]]
    /\ UNCHANGED <<blobs, nextId, auth_vars>>

\* ------------------------------------------------------------ merge_files
MergeLists == UNION {[1..n -> FileIds] : n \in 0..MaxMergeLen}

\* mutant: only the empty list is rejected
merge_too_few_empty(file_ids) == Len(file_ids) < 1

\* len(input_data.file_ids) < 2
merge_too_few(file_ids) == Len(file_ids) < 2

\* mutant: the running total is overwritten instead of added to
merge_total_pages_last(total_pages, file_entity) == file_entity.amount_of_pages

\* total_pages += file_entity.amount_of_pages
merge_total_pages(total_pages, file_entity) ==
  total_pages + file_entity.amount_of_pages

\* mutant: the source names are used whole
Truncate10_whole(name) == name

\* f.name[:10]
Truncate10(name) == SubSeq(name, 1, IF Len(name) < 10 THEN Len(name) ELSE 10)

RECURSIVE JoinUnderscore(_)
\* '_'.join(names)
JoinUnderscore(names) ==
  IF names = <<>> THEN ""
  ELSE IF Len(names) = 1 THEN names[1]
  ELSE names[1] \o "_" \o JoinUnderscore(Tail(names))

merged_name(files_to_merge) ==
  LET n == Len(files_to_merge)
      first3 == SubSeq(files_to_merge, 1, IF n < 3 THEN n ELSE 3)
  IN "merged_"
       \o JoinUnderscore([i \in 1..Len(first3) |-> Truncate10(first3[i].name)])
       \o (IF n > 3 THEN "_and_" \o ToString(n - 3) \o "_more" ELSE "")

merged_description(files_to_merge) ==
  "Merged from " \o ToString(Len(files_to_merge)) \o " files"

\* mutant: the handler deletes the file the loop variable still names
merge_cleanup_id_source(c) == c.files_to_merge[c.idx].file_id

\* the id the except handler passes to file_repo.delete_file
merge_cleanup_id(c) == c.merged_file.file_id

\* mutant: the is_uploaded test comes before the ownership test
merge_validate_get_upload_first(c, recs) ==
  LET file_id == c.file_ids[c.idx]
      l == Logged(c, <<"repo.get_file_by_id", file_id>>)
      e == repo_get_file_by_id(recs, file_id)
  IN IF e = NoFile THEN Done(l, "FileNotFoundError", NoFile)
     ELSE IF ~e.is_uploaded THEN Done(l, "FileNotUploadedError", NoFile)
     ELSE IF e.owner_external_id # c.requester
          THEN Done(l, "UnauthorizedFileAccessError", NoFile)
     ELSE [l EXCEPT !.pc = "m_exists", !.file_entity = e]

\* One turn of the validation loop up to its storage call: get_file on
\* file_ids[idx], then the is_uploaded test.
merge_validate_get(c, recs) ==
  LET file_id == c.file_ids[c.idx]
      l == Logged(c, <<"repo.get_file_by_id", file_id>>)
      o == get_file_outcome(recs, file_id, c.requester)
      e == repo_get_file_by_id(recs, file_id)
  IN IF o # "ok" THEN Done(l, o, NoFile)
     ELSE IF ~e.is_uploaded THEN Done(l, "FileNotUploadedError", NoFile)
     ELSE [l EXCEPT !.pc = "m_exists", !.file_entity = e]

\* mutant: no handler; the exception raised inside the try block leaves the
\* call as it is
Caught_unhandled(c, step) ==
  Done([c EXCEPT !.failed_step = step],
       IF step = "download" THEN "FileNotFoundError" ELSE "Exception", NoFile)

\* an exception raised inside the try block: control goes to the handler
Caught(c, step) == [c EXCEPT !.pc = "m_cleanup", !.failed_step = step]

\* merge_files: the length test, then the first get_file
MergeStart(p) ==
  \E file_ids \in MergeLists, requester \in Users :
    LET c == [Begin("merge_files") EXCEPT !.file_ids = file_ids,
                                          !.requester = requester, !.idx = 1]
    IN /\ call[p].op = "idle"
       /\ nextId <= MaxFiles
       /\ call' = [call EXCEPT ![p] =
                     IF merge_too_few(file_ids) THEN Done(c, "ValueError", NoFile)
                     ELSE merge_validate_get(c, records)]
       /\ UNCHANGED <<records, blobs, nextId, auth_vars>>

\* storage_service.file_exists(file_id), then the entity joins files_to_merge
MergeExists(p) ==
  \E fault \in BOOLEAN :
    LET c == Logged(call[p], <<"storage.file_exists", call[p].file_entity.file_id>>)
    IN /\ call[p].pc = "m_exists"
       /\ call' = [call EXCEPT ![p] =
            IF fault THEN Done(c, "Exception", NoFile)
            ELSE IF ~s3_file_exists(blobs, c.file_entity.file_id)
                 THEN Done(c, "FileNotFoundError", NoFile)
            ELSE [c EXCEPT
                    !.files_to_merge = Append(c.files_to_merge, c.file_entity),
                    !.total_pages = merge_total_pages(c.total_pages, c.file_entity),
                    !.idx = IF c.idx < Len(c.file_ids) THEN c.idx + 1 ELSE 1,
                    !.pc = IF c.idx < Len(c.file_ids) THEN "m_get"
                                                      ELSE "m_create"]]
       /\ UNCHANGED <<records, blobs, nextId, auth_vars>>

\* the next turn of the validation loop
MergeGet(p) ==
  /\ call[p].pc = "m_get"
  /\ call' = [call EXCEPT ![p] = merge_validate_get(call[p], records)]
  /\ UNCHANGED <<records, blobs, nextId, auth_vars>>

\* self.create_file(create_input, owner_external_id): the placeholder
MergeCreate(p) ==
  \E fault \in BOOLEAN :
    LET d == create_file_data(uuid4(nextId),
                              merged_name(call[p].files_to_merge),
                              call[p].total_pages,
                              merged_description(call[p].files_to_merge),
                              call[p].requester)
        c == Logged(call[p], <<"repo.create_file", d.file_id>>)
        o == create_file_outcome(records, d, fault)
    IN /\ call[p].pc = "m_create"
       /\ nextId' = nextId + 1
       /\ records' = IF o = "ok" THEN repo_create_file(records, d) ELSE records
       /\ call' = [call EXCEPT ![p] =
                     IF o # "ok" THEN Done(c, o, NoFile)
                     ELSE [c EXCEPT !.merged_file = NewRow(d),
                                    !.pc = "m_download"]]
       /\ UNCHANGED <<blobs, auth_vars>>

\* mutant: the download loop walks files_to_merge from its end
merge_download_id_reversed(c) ==
  c.files_to_merge[Len(c.files_to_merge) - c.idx + 1].file_id

\* for file_entity in files_to_merge: the id the loop's turn downloads
merge_download_id(c) == c.files_to_merge[c.idx].file_id

\* storage_service.download_file, the "not file_content" test, merger.append
MergeDownload(p) ==
  \E fault \in BOOLEAN :
    LET file_id == merge_download_id(call[p])
        c == Logged(call[p], <<"storage.download_file", file_id>>)
        file_content == s3_download_file(blobs, file_id)
    IN /\ call[p].pc = "m_download"
       /\ call' = [call EXCEPT ![p] =
            IF fault \/ file_content = <<>> THEN Caught(c, "download")
            ELSE IF ~IsPdf(file_content) THEN Caught(c, "combine")
            ELSE [c EXCEPT
                    !.streams = Append(c.streams, file_content),
                    !.idx = IF c.idx < Len(c.files_to_merge) THEN c.idx + 1
                                                             ELSE c.idx,
                    !.pc = IF c.idx < Len(c.files_to_merge) THEN "m_download"
                                                            ELSE "m_upload"]]
       /\ UNCHANGED <<records, blobs, nextId, auth_vars>>

\* merger.write, then storage_service.upload_file(merged_file.file_id, bytes)
MergeUpload(p) ==
  \E fault \in BOOLEAN :
    LET c == Logged(call[p], <<"storage.upload_file", call[p].merged_file.file_id>>)
    IN /\ call[p].pc = "m_upload"
       /\ blobs' = IF fault THEN blobs
                   ELSE s3_upload_file(blobs, c.merged_file.file_id,
                                       Combine(c.streams))
       /\ call' = [call EXCEPT ![p] =
            IF fault THEN Caught(c, "upload")
            ELSE [c EXCEPT !.pc = "m_update",
                           !.storage_path = s3_key(c.merged_file.file_id)]]
       /\ UNCHANGED <<records, nextId, auth_vars>>

\* file_repo.update_file_path(merged_file.file_id, storage_path), then return
MergeUpdate(p) ==
  \E fault \in BOOLEAN :
    LET c == Logged(call[p], <<"repo.update_file_path", call[p].merged_file.file_id>>)
    IN /\ call[p].pc = "m_update"
       /\ records' = IF fault THEN records
                     ELSE repo_update_file_path(records, c.merged_file.file_id,
                                                c.storage_path)
       /\ call' = [call EXCEPT ![p] =
            IF fault THEN Caught(c, "update")
            ELSE Done(c, "ok",
                      [c.merged_file EXCEPT !.file_path = c.storage_path,
                                            !.is_uploaded = TRUE])]
       /\ UNCHANGED <<blobs, nextId, auth_vars>>

\* except Exception: file_repo.delete_file(merged_file.file_id), then
\* raise FileMergeError.  A delete that raises leaves the handler with its
\* own exception.
MergeCleanup(p) ==
  \E fault \in BOOLEAN :
    LET c == Logged(call[p], <<"repo.delete_file", merge_cleanup_id(call[p])>>)
    IN /\ call[p].pc = "m_cleanup"
       /\ records' = IF fault THEN records
                     ELSE repo_delete_file(records, merge_cleanup_id(call[p]))
       /\ call' = [call EXCEPT ![p] =
            IF fault THEN Done(c, "Exception", NoFile)
            ELSE Done(c, "FileMergeError", NoFile)]
       /\ UNCHANGED <<blobs, nextId, auth_vars>>

\* The caller cancels the task while the coroutine is suspended at an await.
\* asyncio.CancelledError derives from BaseException, so no "except Exception"
\* of the service catches it: the call ends there.
Cancel(p) ==
  /\ call[p].pc # "done"
  /\ call' = [call EXCEPT ![p] = Done(call[p], "CancelledError", NoFile)]
  /\ UNCHANGED <<records, blobs, nextId, auth_vars>>

\* The caller takes the result or the exception; its next call starts from
\* a fresh frame.
Return(p) ==
  /\ call[p].pc = "done"
  /\ call[p].op # "idle"
  /\ call' = [call EXCEPT ![p] = IdleCall]
  /\ UNCHANGED <<records, blobs, nextId, auth_vars>>

\* ------------------------------------------------- authentication entities
\* Absent entities (Python None)
NoUser == [id |-> 0, external_id |-> 0, username |-> "", email |-> ""]

NoSession ==
  [token |-> 0, user_id |-> 0, created_at |-> 0, expires_at |-> 0,
   is_active |-> FALSE]

\* the UserEntity built from a row of the users table
UserEntity(row) ==
  [id |-> row.id, external_id |-> row.external_id,
   username |-> row.username, email |-> row.email]

\* hashlib.sha256(password.encode()).hexdigest()
sha256_hexdigest(password) == <<"sha256", password>>

\* mutant: the range starts below zero
randbelow_signed(n) == (0 - 1)..(n - 1)

\* secrets.randbelow(n): any of 0 .. n-1
randbelow(n) == 0..(n - 1)

\* mutant: every call produces the same token
token_hex_repeat(n) == 1

\* secrets.token_hex(32): a value no earlier call has produced
token_hex(n) == n

\* datetime.isoformat / datetime.fromisoformat
isoformat(t) == <<"iso", t>>
fromisoformat(s) == s[2]

\* json.dumps / json.loads
json_dumps(d) == <<"json", d>>
json_loads(s) == s[2]

\* ---------------------------------------------------------- UserRepository
\* User.filter(...).first(): the row with the username, if any
user_by_username(us, username) ==
  IF \E i \in DOMAIN us : us[i].username = username
  THEN us[CHOOSE i \in DOMAIN us : us[i].username = username]
  ELSE [id |-> 0, external_id |-> 0, username |-> "", email |-> "",
        password_hash |-> <<>>]

\* mutant: the id is not used in the query
user_by_id_first(us, id) ==
  IF 1 \in DOMAIN us THEN UserEntity(us[1]) ELSE NoUser

user_by_id(us, id) ==
  IF id \in DOMAIN us THEN UserEntity(us[id]) ELSE NoUser

\* mutant: only the username is looked up
user_exists_username_only(us, username, email) ==
  \E i \in DOMAIN us : us[i].username = username

user_exists(us, username, email) ==
  \/ \E i \in DOMAIN us : us[i].username = username
  \/ \E i \in DOMAIN us : us[i].email = email

\* mutant: a known username is enough
verify_password_any(us, username, password) ==
  LET user == user_by_username(us, username) IN
  IF user.id = 0 THEN NoUser ELSE UserEntity(user)

verify_password(us, username, password) ==
  LET user == user_by_username(us, username) IN
  IF user.id = 0 \/ sha256_hexdigest(password) # user.password_hash
  THEN NoUser
  ELSE UserEntity(user)

\* cls.filter(external_id=external_id).exists()
external_id_exists(us, external_id) ==
  \E i \in DOMAIN us : us[i].external_id = external_id

\* the unique columns of the users table accept the row
user_unique_ok(us, row) ==
  \A i \in DOMAIN us :
    /\ us[i].external_id # row.external_id
    /\ us[i].username # row.username
    /\ us[i].email # row.email

\* cls.create(external_id, username, email, password_hash)
user_create(us, row) == us @@ (row.id :> row)

\* ------------------------------------------------------- SessionRepository
sql_get_session(ss, token) ==
  IF token \in DOMAIN ss THEN ss[token] ELSE NoSession

\* Session.filter(token=token, is_active=True).first() finds a row
sql_active_session(ss, token) ==
  token \in DOMAIN ss /\ ss[token].is_active

\* Session.create_for_user
sql_create_session(ss, token, user_id, t) ==
  ss @@ (token :> [token |-> token, user_id |-> user_id, created_at |-> t,
                   expires_at |-> t + SessionLifetime, is_active |-> TRUE])

\* mutant: the row is saved as it was read
sql_invalidate_session_keep(ss, token) == ss

\* mutant: every row is marked inactive
sql_invalidate_session_all(ss, token) ==
  [t \in DOMAIN ss |-> [ss[t] EXCEPT !.is_active = FALSE]]

\* session.is_active = False; session.save()
sql_invalidate_session(ss, token) ==
  IF token \in DOMAIN ss THEN [ss EXCEPT ![token].is_active = FALSE] ELSE ss

sql_get_user_by_session(ss, us, token) ==
  IF sql_active_session(ss, token) THEN user_by_id(us, ss[token].user_id)
  ELSE NoUser

\* -------------------------------------------------- RedisSessionRepository
\* f"session:{token}"
redis_key(token) == <<"session:", token>>

\* SETEX key seconds value, issued at time t
redis_setex(rd, key, seconds, value, t) ==
  [k \in DOMAIN rd \cup {key} |->
     IF k = key THEN [value |-> value, deadline |-> t + seconds] ELSE rd[k]]

\* GET key at time t: None (<<>>) for a missing key or one whose time to live
\* has run out
redis_get(rd, key, t) ==
  IF key \in DOMAIN rd /\ t < rd[key].deadline THEN rd[key].value ELSE <<>>

\* mutant: DEL is never issued
redis_delete_noop(rd, key) == rd

redis_delete(rd, key) == [k \in DOMAIN rd \ {key} |-> rd[k]]

\* the dict create_session stores
redis_session_data(user, created_at, expires_at) ==
  [user_id |-> user.id, user_external_id |-> user.external_id,
   username |-> user.username, email |-> user.email,
   created_at |-> isoformat(created_at), expires_at |-> isoformat(expires_at),
   is_active |-> TRUE]

redis_get_session(rd, token, t) ==
  LET session_data == redis_get(rd, redis_key(token), t) IN
  IF session_data = <<>> THEN NoSession
  ELSE LET data == json_loads(session_data) IN
       [token |-> token, user_id |-> data.user_id,
        created_at |-> fromisoformat(data.created_at),
        expires_at |-> fromisoformat(data.expires_at),
        is_active |-> data.is_active]

redis_get_user_by_session(rd, us, token, t) ==
  LET session_data == redis_get(rd, redis_key(token), t) IN
  IF session_data = <<>> THEN NoUser
  ELSE user_by_id(us, json_loads(session_data).user_id)

\* ------------------------------------------- ISessionRepository, as wired
get_session(token) ==
  IF session_store = "sql" THEN sql_get_session(sessions, token)
  ELSE redis_get_session(redis, token, now)

\* invalidate_session's lookup: whether it goes on to write
invalidate_finds(token) ==
  IF session_store = "sql" THEN sql_active_session(sessions, token)
  ELSE redis_get(redis, redis_key(token), now) # <<>>

get_user_by_session(token) ==
  IF session_store = "sql" THEN sql_get_user_by_session(sessions, users, token)
  ELSE redis_get_user_by_session(redis, users, token, now)

\* ---------------------------------------------------- AuthenticationService
\* A coroutine frame of the service, as IdleCall is for FileService.  utcnow
\* is the clock value introspect compared expires_at with (-1: not read).
IdleAuth ==
  [op |-> "idle", pc |-> "done",
   username |-> "", email |-> "", password |-> "", token |-> 0,
   external_id |-> 0, user |-> NoUser, session |-> NoSession, utcnow |-> -1,
   outcome |-> "none", result_user |-> NoUser, result_session |-> NoSession,
   pre_users |-> <<>>, pre_sessions |-> <<>>, pre_redis |-> <<>>,
   pre_session |-> NoSession, pre_now |-> 0,
   prev |-> [op |-> "idle", token |-> 0]]

\* a call begins; prev is what the caller remembers of its previous call
BeginAuth(p, op) ==
  [IdleAuth EXCEPT !.op = op, !.pc = "start", !.pre_users = users,
                   !.pre_sessions = sessions, !.pre_redis = redis,
                   !.pre_now = now, !.prev = auth[p].prev]

\* the call ends: it returns (outcome "ok") or raises outcome
DoneAuth(c, outcome) == [c EXCEPT !.pc = "done", !.outcome = outcome]

\* register: user_repo.user_exists
RegisterStart(p) ==
  \E username \in Usernames, email \in Emails, password \in Passwords :
    LET c == [BeginAuth(p, "register") EXCEPT !.username = username,
                                           !.email = email,
                                           !.password = password]
    IN /\ auth[p].op = "idle"
       /\ auth' = [auth EXCEPT ![p] =
            IF user_exists(users, username, email)
            THEN DoneAuth(c, "UserAlreadyExistsError")
            ELSE [c EXCEPT !.pc = "r_draw"]]
       /\ UNCHANGED <<users, sessions, redis, now, session_store,
                      nextUserId, nextToken, file_vars>>

\* create_with_external_id: one turn of the while loop, a candidate and the
\* query whether a row already has it
RegisterDraw(p) ==
  \E r \in randbelow(MaxExternalId) :
    LET external_id == r + 1 IN
    /\ auth[p].pc = "r_draw"
    /\ auth' = [auth EXCEPT ![p] =
         [auth[p] EXCEPT !.external_id = external_id,
                         !.pc = IF external_id_exists(users, external_id)
                                THEN "r_draw" ELSE "r_create"]]
    /\ UNCHANGED <<users, sessions, redis, now, session_store,
                   nextUserId, nextToken, file_vars>>

\* cls.create: the insert, which a unique column can reject
RegisterCreate(p) ==
  LET c == auth[p]
      row == [id |-> nextUserId, external_id |-> c.external_id,
              username |-> c.username, email |-> c.email,
              password_hash |-> sha256_hexdigest(c.password)]
      ok == user_unique_ok(users, row)
  IN /\ c.pc = "r_create"
     /\ users' = IF ok THEN user_create(users, row) ELSE users
     /\ nextUserId' = IF ok THEN nextUserId + 1 ELSE nextUserId
     /\ auth' = [auth EXCEPT ![p] =
          IF ok THEN [DoneAuth(c, "ok") EXCEPT !.result_user = UserEntity(row)]
          ELSE DoneAuth(c, "IntegrityError")]
     /\ UNCHANGED <<sessions, redis, now, session_store, nextToken, file_vars>>

\* login: user_repo.verify_password, then the entry of create_session, which
\* in the Redis repository draws the token and fixes expires_at
LoginStart(p) ==
  \E username \in Usernames, password \in Passwords :
    LET c == [BeginAuth(p, "login") EXCEPT !.username = username,
                                        !.password = password]
        user == verify_password(users, username, password)
        redis_store == session_store = "redis"
    IN /\ auth[p].op = "idle"
       /\ user # NoUser => nextToken <= MaxTokens
       /\ auth' = [auth EXCEPT ![p] =
            IF user = NoUser THEN DoneAuth(c, "InvalidCredentialsError")
            ELSE IF redis_store
            THEN [c EXCEPT !.user = user, !.pc = "l_user",
                           !.token = token_hex(nextToken),
                           !.session = [NoSession EXCEPT
                              !.token = token_hex(nextToken),
                              !.user_id = user.id,
                              !.expires_at = now + SessionLifetime]]
            ELSE [c EXCEPT !.user = user, !.pc = "l_create"]]
       /\ nextToken' = IF user # NoUser /\ redis_store THEN nextToken + 1
                       ELSE nextToken
       /\ UNCHANGED <<users, sessions, redis, now, session_store, nextUserId, file_vars>>

\* SessionRepository.create_session: Session.create_for_user
LoginCreate(p) ==
  LET c == auth[p]
      token == token_hex(nextToken)
  IN /\ c.pc = "l_create"
     /\ sessions' = sql_create_session(sessions, token, c.user.id, now)
     /\ nextToken' = nextToken + 1
     /\ auth' = [auth EXCEPT ![p] =
          [DoneAuth(c, "ok") EXCEPT
             !.token = token,
             !.result_session = sql_get_session(sessions', token)]]
     /\ UNCHANGED <<users, redis, now, session_store, nextUserId, file_vars>>

\* RedisSessionRepository.create_session: User.filter(id=user_id).first(),
\* then created_at is read from the clock
LoginUser(p) ==
  LET c == auth[p]
      user == user_by_id(users, c.session.user_id)
  IN /\ c.pc = "l_user"
     /\ auth' = [auth EXCEPT ![p] =
          IF user = NoUser THEN DoneAuth(c, "ValueError")
          ELSE [c EXCEPT !.user = user, !.pc = "l_setex",
                         !.session = [c.session EXCEPT !.created_at = now,
                                                       !.is_active = TRUE]]]
     /\ UNCHANGED <<users, sessions, redis, now, session_store,
                    nextUserId, nextToken, file_vars>>

\* redis_client.setex(f"session:{token}", 24 * 3600, json.dumps(session_data))
LoginSetex(p) ==
  LET c == auth[p]
      session_data == redis_session_data(c.user, c.session.created_at,
                                         c.session.expires_at)
  IN /\ c.pc = "l_setex"
     /\ redis' = redis_setex(redis, redis_key(c.token), RedisTtl,
                             json_dumps(session_data), now)
     /\ auth' = [auth EXCEPT ![p] =
          [DoneAuth(c, "ok") EXCEPT !.result_session = c.session]]
     /\ UNCHANGED <<users, sessions, now, session_store, nextUserId, nextToken, file_vars>>

\* what a call does after invalidate_session's lookup
after_invalidate_find(c, found) ==
  IF found THEN [c EXCEPT !.pc = "inv_write"]
  ELSE IF c.op = "logout" THEN DoneAuth(c, "SessionNotFoundError")
  ELSE DoneAuth(c, "InvalidSessionError")

\* logout: session_repo.invalidate_session up to its lookup
LogoutStart(p) ==
  \E token \in Tokens :
    LET c == [BeginAuth(p, "logout") EXCEPT !.token = token,
                                         !.pre_session = get_session(token)]
    IN /\ auth[p].op = "idle"
       /\ auth' = [auth EXCEPT ![p] =
                     after_invalidate_find(c, invalidate_finds(token))]
       /\ UNCHANGED <<users, sessions, redis, now, session_store,
                      nextUserId, nextToken, file_vars>>

\* invalidate_session's write: session.save() or redis_client.delete; logout
\* then returns True, introspect raises InvalidSessionError
InvalidateWrite(p) ==
  LET c == auth[p] IN
  /\ c.pc = "inv_write"
  /\ sessions' = IF session_store = "sql"
                 THEN sql_invalidate_session(sessions, c.token) ELSE sessions
  /\ redis' = IF session_store = "redis"
              THEN redis_delete(redis, redis_key(c.token)) ELSE redis
  /\ auth' = [auth EXCEPT ![p] =
       IF c.op = "logout" THEN DoneAuth(c, "ok")
       ELSE DoneAuth(c, "InvalidSessionError")]
  /\ UNCHANGED <<users, now, session_store, nextUserId, nextToken, file_vars>>

\* mutant: a session is expired from its deadline on
is_expired_at_deadline(session, utcnow) == session.expires_at <= utcnow

\* session.expires_at < datetime.utcnow()
is_expired(session, utcnow) == session.expires_at < utcnow

\* introspect: session_repo.get_session, the two tests, the clock read
IntrospectStart(p) ==
  \E token \in Tokens :
    LET session == get_session(token)
        c == [BeginAuth(p, "introspect") EXCEPT !.token = token,
                                             !.session = session,
                                             !.pre_session = session]
    IN /\ auth[p].op = "idle"
       /\ auth' = [auth EXCEPT ![p] =
            IF session = NoSession \/ ~session.is_active
            THEN DoneAuth(c, "InvalidSessionError")
            ELSE [c EXCEPT !.utcnow = now,
                           !.pc = IF is_expired(session, now) THEN "inv_find"
                                                              ELSE "i_user"]]
       /\ UNCHANGED <<users, sessions, redis, now, session_store,
                      nextUserId, nextToken, file_vars>>

\* introspect's invalidate_session up to its lookup
IntrospectInvalidate(p) ==
  /\ auth[p].pc = "inv_find"
  /\ auth' = [auth EXCEPT ![p] =
       after_invalidate_find(auth[p], invalidate_finds(auth[p].token))]
  /\ UNCHANGED <<users, sessions, redis, now, session_store,
                 nextUserId, nextToken, file_vars>>

\* session_repo.get_user_by_session
IntrospectUser(p) ==
  LET c == auth[p]
      user == get_user_by_session(c.token)
  IN /\ c.pc = "i_user"
     /\ auth' = [auth EXCEPT ![p] =
          IF user = NoUser THEN DoneAuth(c, "InvalidSessionError")
          ELSE [DoneAuth(c, "ok") EXCEPT !.result_user = user]]
     /\ UNCHANGED <<users, sessions, redis, now, session_store,
                    nextUserId, nextToken, file_vars>>

\* time passes
Tick ==
  /\ now < MaxTime
  /\ now' = now + 1
  /\ UNCHANGED <<users, sessions, redis, session_store, nextUserId,
                 nextToken, auth, file_vars>>

\* the caller takes the result or the exception
AuthReturn(p) ==
  /\ auth[p].pc = "done"
  /\ auth[p].op # "idle"
  /\ auth' = [auth EXCEPT ![p] =
       [IdleAuth EXCEPT !.prev =
          IF auth[p].op = "logout" /\ auth[p].outcome = "ok"
          THEN [op |-> "logout", token |-> auth[p].token]
          ELSE IF auth[p].op = "introspect" /\ auth[p].utcnow # -1
                    /\ is_expired(auth[p].session, auth[p].utcnow)
          THEN [op |-> "introspect", token |-> auth[p].token]
          ELSE IdleAuth.prev]]
  /\ UNCHANGED <<users, sessions, redis, now, session_store,
                 nextUserId, nextToken, file_vars>>

\* ---------------------------------------------------------- specification
Step(p) ==
  \/ GetFile(p) \/ GetUserFiles(p) \/ CreateFile(p)
  \/ UploadStart(p) \/ UploadPut(p) \/ UploadUpdate(p)
  \/ DeleteStart(p) \/ DeleteBlob(p) \/ DeleteRow(p)
  \/ MergeStart(p) \/ MergeExists(p) \/ MergeGet(p) \/ MergeCreate(p)
  \/ MergeDownload(p) \/ MergeUpload(p) \/ MergeUpdate(p) \/ MergeCleanup(p)
  \/ Cancel(p)

\* the state after construction, with the session store the service is built
\* with
InitWith(stores) ==
  /\ records = <<>>
  /\ blobs = <<>>
  /\ nextId = 1
  /\ call = [p \in Procs |-> IdleCall]
  /\ users = <<>>
  /\ sessions = <<>>
  /\ redis = <<>>
  /\ now = 0
  /\ session_store \in stores
  /\ nextUserId = 1
  /\ nextToken = 1
  /\ auth = [p \in Procs |-> IdleAuth]

\* AuthenticationContainer builds the service with RedisSessionRepository
Init == InitWith({"redis"})

\* one caller: calls run one after the other
Next == Step(1) \/ Return(1)

Spec == Init /\ [][Next]_vars

AuthStep(p) ==
  \/ RegisterStart(p) \/ RegisterDraw(p) \/ RegisterCreate(p)
  \/ LoginStart(p) \/ LoginCreate(p) \/ LoginUser(p) \/ LoginSetex(p)
  \/ LogoutStart(p) \/ InvalidateWrite(p)
  \/ IntrospectStart(p) \/ IntrospectInvalidate(p) \/ IntrospectUser(p)

\* one caller of the AuthenticationService, under either session store, with
\* the clock running
AuthNext == AuthStep(1) \/ AuthReturn(1) \/ Tick

\* the service built with either ISessionRepository implementation
AuthInit == InitWith({"sql", "redis"})

AuthSpec == AuthInit /\ [][AuthNext]_vars

\* ------------------------------------------------------------------ claims
\* what storage holds for a file id: whether a blob exists, and its bytes
BlobOf(bl, file_id) == <<s3_file_exists(bl, file_id), s3_download_file(bl, file_id)>>

\* the frame of a merge_files call that has ended
MergeEnded(c) == c.op = "merge_files" /\ c.pc = "done"

\* C1: a merge that fails at a step after the placeholder was created (a
\* download, the combine, the upload, the storage-key update) raises
\* FileMergeError and leaves no record under the placeholder's file_id.
\* Cancellation is C3's case and is left out here.
C1_FailedMergeRaisesMergeErrorAndRemovesPlaceholder ==
  \A p \in Procs :
    (MergeEnded(call[p]) /\ call[p].failed_step # "none"
       /\ call[p].outcome # "CancelledError")
    => /\ call[p].outcome = "FileMergeError"
       /\ call[p].merged_file.file_id \notin DOMAIN records

\* C2: at every point of a merge_files call, and when it has ended in any
\* way, every file id of the input list has the row and the blob it had when
\* the call began.
C2_MergeLeavesSourcesUnchanged ==
  \A p \in Procs :
    call[p].op = "merge_files" =>
      \A i \in 1..Len(call[p].file_ids) :
        LET f == call[p].file_ids[i] IN
        /\ repo_get_file_by_id(records, f) = repo_get_file_by_id(call[p].pre_records, f)
        /\ BlobOf(blobs, f) = BlobOf(call[p].pre_blobs, f)

\* a merge that uploaded the merged bytes, failed at the storage-key update
\* and was compensated
C2_Witness ==
  \E p \in Procs :
    /\ MergeEnded(call[p])
    /\ call[p].outcome = "FileMergeError"
    /\ call[p].failed_step = "update"
    /\ call[p].file_ids[1] # call[p].file_ids[2]

\* C3: a merge cancelled after the placeholder was created leaves no record
\* under the placeholder's file_id.
C3_CancelledMergeRemovesPlaceholder ==
  \A p \in Procs :
    (MergeEnded(call[p]) /\ call[p].outcome = "CancelledError"
       /\ call[p].merged_file # NoFile)
    => call[p].merged_file.file_id \notin DOMAIN records

\* C4: merge_files with fewer than two ids ends at once with the validation
\* error, having called neither the repository nor the storage service.
C4_ShortMergeFailsBeforeAnyStoreCall ==
  \A p \in Procs :
    (call[p].op = "merge_files" /\ Len(call[p].file_ids) < 2)
    => /\ call[p].pc = "done"
       /\ call[p].outcome = "ValueError"
       /\ call[p].log = <<>>
       /\ records = call[p].pre_records
       /\ blobs = call[p].pre_blobs

\* a one-id merge of a file the requester owns, uploaded and present in storage
C4_Witness ==
  \E p \in Procs :
    /\ call[p].op = "merge_files"
    /\ Len(call[p].file_ids) = 1
    /\ LET e == repo_get_file_by_id(records, call[p].file_ids[1]) IN
       /\ e.owner_external_id = call[p].requester
       /\ e.is_uploaded
       /\ s3_file_exists(blobs, e.file_id)

RECURSIVE SumPages(_, _)
\* the page counts of the rows the ids name, one term per list entry
SumPages(file_ids, recs) ==
  IF file_ids = <<>> THEN 0
  ELSE repo_get_file_by_id(recs, Head(file_ids)).amount_of_pages
         + SumPages(Tail(file_ids), recs)

\* C5: the file a successful merge returns has amount_of_pages equal to the
\* sum of the sources' page counts, one term per entry of the input list,
\* and is_uploaded true; the stored row carries the same page count.
C5_MergedPagesAreTheSum ==
  \A p \in Procs :
    (MergeEnded(call[p]) /\ call[p].outcome = "ok")
    => /\ call[p].result.amount_of_pages
            = SumPages(call[p].file_ids, call[p].pre_records)
       /\ call[p].result.is_uploaded
       /\ repo_get_file_by_id(records, call[p].result.file_id).amount_of_pages
            = call[p].result.amount_of_pages

\* the merge of a 3-page and a 5-page file has returned an 8-page file
C5_Witness ==
  \E p \in Procs :
    /\ MergeEnded(call[p]) /\ call[p].outcome = "ok"
    /\ call[p].files_to_merge[1].amount_of_pages = 3
    /\ call[p].files_to_merge[2].amount_of_pages = 5
    /\ call[p].result.amount_of_pages = 8

\* the row exists / exists and belongs to the requester
Exists(recs, file_id) == file_id \in DOMAIN recs
OwnedBy(recs, file_id, user) ==
  Exists(recs, file_id) /\ recs[file_id].owner_external_id = user

\* C6: get_file fails with FileNotFoundError exactly when no row has the
\* file_id, with UnauthorizedFileAccessError exactly when the row exists and
\* its owner differs from the requester, and otherwise returns the row.
C6_GetChecksExistenceThenOwnership ==
  \A p \in Procs :
    (call[p].op = "get_file" /\ call[p].pc = "done") =>
      LET c == call[p] IN
      /\ c.outcome \in {"FileNotFoundError", "UnauthorizedFileAccessError", "ok"}
      /\ (c.outcome = "FileNotFoundError") = ~Exists(records, c.file_id)
      /\ (c.outcome = "UnauthorizedFileAccessError")
           = (Exists(records, c.file_id) /\ ~OwnedBy(records, c.file_id, c.requester))
      /\ c.outcome = "ok" => c.result = records[c.file_id]

\* get_file on another user's file has raised UnauthorizedFileAccessError
C6_Witness ==
  \E p \in Procs :
    /\ call[p].op = "get_file" /\ call[p].pc = "done"
    /\ Exists(records, call[p].file_id)
    /\ ~OwnedBy(records, call[p].file_id, call[p].requester)
    /\ call[p].outcome = "UnauthorizedFileAccessError"

\* C7: get_file, upload_file_content and delete_file on an existing file by a
\* requester who is not its owner end with UnauthorizedFileAccessError, for
\* either upload state and any declared content type, and change no store.
C7_NonOwnerIsUnauthorized ==
  \A p \in Procs :
    LET c == call[p] IN
    (/\ c.op \in {"get_file", "upload_file_content", "delete_file"}
     /\ Exists(c.pre_records, c.file_id)
     /\ ~OwnedBy(c.pre_records, c.file_id, c.requester))
    => /\ c.pc = "done"
       /\ c.outcome = "UnauthorizedFileAccessError"
       /\ records = c.pre_records
       /\ blobs = c.pre_blobs

\* an upload with a non-PDF content type to another user's uploaded file
C7_Witness ==
  \E p \in Procs :
    /\ call[p].op = "upload_file_content"
    /\ call[p].content_type # "application/pdf"
    /\ Exists(records, call[p].file_id)
    /\ records[call[p].file_id].is_uploaded
    /\ ~OwnedBy(records, call[p].file_id, call[p].requester)
    /\ call[p].outcome = "UnauthorizedFileAccessError"

\* C8: right after a successful upload_file_content by the owner, get_file by
\* the owner returns the row with is_uploaded true and a storage key; right
\* after a successful delete_file of an uploaded file, the blob and the row
\* are gone and get_file raises FileNotFoundError.
C8_UploadGetDeleteRoundTrip ==
  \A p \in Procs :
    LET c == call[p] IN
    /\ (c.op = "upload_file_content" /\ c.pc = "done" /\ c.outcome = "ok")
       => /\ get_file_outcome(records, c.file_id, c.requester) = "ok"
          /\ repo_get_file_by_id(records, c.file_id).is_uploaded
          /\ repo_get_file_by_id(records, c.file_id).file_path # NoPath
          /\ s3_file_exists(blobs, c.file_id)
    /\ (c.op = "delete_file" /\ c.pc = "done" /\ c.outcome = "ok"
          /\ c.file_entity.is_uploaded)
       => /\ ~s3_file_exists(blobs, c.file_id)
          /\ ~Exists(records, c.file_id)
          /\ get_file_outcome(records, c.file_id, c.requester) = "FileNotFoundError"

\* a successful delete of a file that was uploaded and had its blob
C8_Witness ==
  \E p \in Procs :
    /\ call[p].op = "delete_file" /\ call[p].pc = "done"
    /\ call[p].outcome = "ok" /\ call[p].deleted
    /\ call[p].file_entity.is_uploaded
    /\ s3_file_exists(call[p].pre_blobs, call[p].file_id)
    /\ ~Exists(records, call[p].file_id)

\* C9: every row of the files table has is_uploaded true exactly when its
\* storage key is set.
C9_UploadedIffStorageKey ==
  \A f \in DOMAIN records :
    records[f].is_uploaded = (records[f].file_path # NoPath)

\* after a merge whose compensation failed: an uploaded row beside the
\* placeholder row that was never uploaded
C9_Witness ==
  \E p \in Procs :
    /\ MergeEnded(call[p]) /\ call[p].failed_step # "none"
    /\ Exists(records, call[p].merged_file.file_id)
    /\ ~records[call[p].merged_file.file_id].is_uploaded
    /\ records[call[p].file_ids[1]].is_uploaded

\* C10: a row keeps its owner for as long as it exists, and a new row's owner
\* is the owner_external_id its creating call was given.
C10_OwnerNeverChanges ==
  [][/\ \A f \in DOMAIN records \cap DOMAIN records' :
          records'[f].owner_external_id = records[f].owner_external_id
     /\ \A f \in DOMAIN records' \ DOMAIN records :
          \E p \in Procs : call'[p].requester = records'[f].owner_external_id
    ]_vars

\* user 2's file, uploaded by user 2, after user 1 was refused an upload to it
C10_Witness ==
  \E p \in Procs :
    /\ call[p].op = "upload_file_content" /\ call[p].requester = 1
    /\ Exists(records, call[p].file_id)
    /\ records[call[p].file_id].owner_external_id = 2
    /\ records[call[p].file_id].is_uploaded
    /\ call[p].outcome = "UnauthorizedFileAccessError"

\* the frame of an AuthenticationService call of the kind op that has ended
AuthEnded(c, op) == c.op = op /\ c.pc = "done"

\* C11: a register whose username or whose email some user already has ends
\* with UserAlreadyExistsError at its first step, and the users table is as
\* it was when the call began.
C11_RegisterRefusesExistingUser ==
  \A p \in Procs :
    LET c == auth[p] IN
    (/\ c.op = "register"
     /\ \E i \in DOMAIN c.pre_users :
          \/ c.pre_users[i].username = c.username
          \/ c.pre_users[i].email = c.email)
    => /\ c.pc = "done"
       /\ c.outcome = "UserAlreadyExistsError"
       /\ users = c.pre_users

\* a register refused for its email alone: no user has its username
C11_Witness ==
  \E p \in Procs :
    /\ AuthEnded(auth[p], "register")
    /\ auth[p].outcome = "UserAlreadyExistsError"
    /\ \E i \in DOMAIN users : users[i].email = auth[p].email
    /\ \A i \in DOMAIN users : users[i].username # auth[p].username

\* C12: the user a successful register returns has a positive external_id
\* that no other row of the users table has, and in every state the rows of
\* the users table differ pairwise in external_id, in username and in email.
C12_ExternalIdsPositiveAndUnique ==
  /\ \A p \in Procs :
       (AuthEnded(auth[p], "register") /\ auth[p].outcome = "ok")
       => /\ auth[p].result_user.external_id > 0
          /\ \A i \in DOMAIN users \ {auth[p].result_user.id} :
               users[i].external_id # auth[p].result_user.external_id
  /\ \A i, j \in DOMAIN users :
       i # j => /\ users[i].external_id # users[j].external_id
                /\ users[i].username # users[j].username
                /\ users[i].email # users[j].email

\* the second user has just been registered
C12_Witness ==
  \E p \in Procs :
    /\ AuthEnded(auth[p], "register") /\ auth[p].outcome = "ok"
    /\ Cardinality(DOMAIN users) = 2
    /\ auth[p].result_user.id = 2

\* C13: a login whose username no user has, and a login whose username a
\* user has but whose password is not that user's, both end with
\* InvalidCredentialsError at the first step, and neither session store has
\* changed.
C13_BadLoginIsInvalidCredentials ==
  \A p \in Procs :
    LET c == auth[p]
        unknown == \A i \in DOMAIN c.pre_users :
                     c.pre_users[i].username # c.username
        wrong == \E i \in DOMAIN c.pre_users :
                   /\ c.pre_users[i].username = c.username
                   /\ c.pre_users[i].password_hash # sha256_hexdigest(c.password)
    IN (c.op = "login" /\ (unknown \/ wrong))
       => /\ c.pc = "done"
          /\ c.outcome = "InvalidCredentialsError"
          /\ sessions = c.pre_sessions
          /\ redis = c.pre_redis

\* a login with a registered username and another password was refused
C13_Witness ==
  \E p \in Procs :
    /\ AuthEnded(auth[p], "login")
    /\ auth[p].outcome = "InvalidCredentialsError"
    /\ \E i \in DOMAIN users :
         /\ users[i].username = auth[p].username
         /\ users[i].password_hash # sha256_hexdigest(auth[p].password)

\* the session store holds an active session under the token
SessionActive(token) ==
  get_session(token) # NoSession /\ get_session(token).is_active

\* the same, when the call of frame c began
ActiveAtStart(c) == c.pre_session # NoSession /\ c.pre_session.is_active

\* C14: a logout ends with "ok" exactly when the store held an active session
\* under the token as the call began, and then holds none; otherwise it ends
\* at once with SessionNotFoundError and changes nothing.  A logout that
\* follows a successful logout of the same token ends with
\* SessionNotFoundError.
C14_LogoutOnlyOfActiveSession ==
  \A p \in Procs :
    LET c == auth[p] IN
    c.op = "logout" =>
      /\ c.pc = "done" => c.outcome \in {"ok", "SessionNotFoundError"}
      /\ (c.pc = "done" /\ c.outcome = "ok")
           => ActiveAtStart(c) /\ ~SessionActive(c.token)
      /\ (c.pc = "done" /\ ActiveAtStart(c)) => c.outcome = "ok"
      /\ ~ActiveAtStart(c)
           => /\ c.pc = "done" /\ c.outcome = "SessionNotFoundError"
              /\ sessions = c.pre_sessions /\ redis = c.pre_redis
      /\ (c.prev.op = "logout" /\ c.prev.token = c.token)
           => c.pc = "done" /\ c.outcome = "SessionNotFoundError"

\* the second of two logouts of a token in a row has been refused
C14_Witness ==
  \E p \in Procs :
    /\ AuthEnded(auth[p], "logout")
    /\ auth[p].prev.op = "logout" /\ auth[p].prev.token = auth[p].token
    /\ auth[p].outcome = "SessionNotFoundError"

\* the store held no session under the token, or an inactive one, or one whose
\* expires_at the clock had passed, as the call of frame c began
InvalidAtStart(c) ==
  \/ c.pre_session = NoSession
  \/ ~c.pre_session.is_active
  \/ c.pre_now > c.pre_session.expires_at

\* C15: an introspect ends with "ok" or with InvalidSessionError.  It ends
\* with InvalidSessionError when, as it began, no session matched the token,
\* the session was inactive, or the clock was later than expires_at.  When it
\* ends with "ok" none of the three held and the user returned is the user
\* the session belongs to; and it does end with "ok" when none of the three
\* held and the call ran with the clock standing still.
C15_IntrospectValidatesSession ==
  \A p \in Procs :
    LET c == auth[p] IN
    c.op = "introspect" =>
      /\ c.pc = "done" => c.outcome \in {"ok", "InvalidSessionError"}
      /\ InvalidAtStart(c) => c.outcome # "ok"
      /\ (c.pc = "done" /\ c.outcome = "ok")
           => /\ c.result_user # NoUser
              /\ c.result_user = user_by_id(users, c.pre_session.user_id)
      /\ (c.pc = "done" /\ ~InvalidAtStart(c) /\ now = c.pre_now)
           => c.outcome = "ok"

\* an introspect at the very instant expires_at names has returned the user
C15_Witness ==
  \E p \in Procs :
    /\ AuthEnded(auth[p], "introspect")
    /\ auth[p].outcome = "ok"
    /\ auth[p].pre_now = auth[p].pre_session.expires_at

\* C16: an introspect that began on an active session with the clock later
\* than its expires_at ends with InvalidSessionError and the store then holds
\* no active session under the token; a logout of that token that follows it
\* ends with SessionNotFoundError.
C16_IntrospectExpiresLazily ==
  \A p \in Procs :
    LET c == auth[p] IN
    /\ (/\ AuthEnded(c, "introspect")
        /\ ActiveAtStart(c)
        /\ c.pre_now > c.pre_session.expires_at)
       => c.outcome = "InvalidSessionError" /\ ~SessionActive(c.token)
    /\ (c.op = "logout" /\ c.prev.op = "introspect" /\ c.prev.token = c.token)
       => c.pc = "done" /\ c.outcome = "SessionNotFoundError"

\* a logout refused right after an introspect found the token's session
\* expired
C16_Witness ==
  \E p \in Procs :
    /\ AuthEnded(auth[p], "logout")
    /\ auth[p].prev.op = "introspect" /\ auth[p].prev.token = auth[p].token
    /\ auth[p].outcome = "SessionNotFoundError"

\* a session was stored under the token at some time: the token was drawn,
\* and no create_session that drew it is still on its way to the store
Created(token) ==
  /\ token < nextToken
  /\ \A p \in Procs :
       ~(auth[p].pc \in {"l_user", "l_setex"} /\ auth[p].token = token)

\* the token's session is Invalidated (inactive or removed) or Expired
Terminal(token) ==
  /\ Created(token)
  /\ \/ ~SessionActive(token)
     \/ now > get_session(token).expires_at

\* C17: no step of register, login, logout, introspect or the clock takes a
\* token's session out of Invalidated or Expired; an introspect that begins
\* on such a token does not go on to the user lookup, and only the user
\* lookup makes an introspect succeed.
C17_TerminalSessionStatesAreTerminal ==
  [][/\ \A t \in Tokens : Terminal(t) => Terminal(t)'
     /\ \A p \in Procs :
          /\ (/\ auth[p].op = "idle" /\ auth'[p].op = "introspect"
               /\ Terminal(auth'[p].token))
             => auth'[p].pc # "i_user"
          /\ (/\ auth'[p].op = "introspect" /\ auth'[p].outcome = "ok"
               /\ auth[p] # auth'[p])
             => auth[p].pc = "i_user"
    ]_vars

\* with two sessions stored, an introspect on the logged-out one was refused
\* while the other is active
C17_Witness ==
  \E p \in Procs :
    /\ AuthEnded(auth[p], "introspect")
    /\ auth[p].outcome = "InvalidSessionError"
    /\ auth[p].token = 1
    /\ auth[p].pre_now <= auth[p].pre_session.expires_at
    /\ Created(1) /\ ~SessionActive(1)
    /\ Created(2) /\ SessionActive(2)

\* the store held a session under the token whose expires_at the clock had
\* passed, as the call of frame c began
ExpiredAtStart(c) ==
  c.pre_session # NoSession /\ c.pre_now > c.pre_session.expires_at

\* C18: introspect and logout answer for a session whose expires_at has
\* passed as they answer for a session a logout has invalidated: introspect
\* with InvalidSessionError, logout with SessionNotFoundError, under either
\* session store.
C18_ExpiredLooksInvalidated ==
  \A p \in Procs :
    LET c == auth[p] IN
    (c.pc = "done" /\ c.op \in {"introspect", "logout"} /\ ExpiredAtStart(c))
    => c.outcome = IF c.op = "introspect" THEN "InvalidSessionError"
                                          ELSE "SessionNotFoundError"

\* what validating one id of a merge must answer: the error, or "pass"
Validation(recs, bl, file_id, user) ==
  IF ~Exists(recs, file_id) THEN "FileNotFoundError"
  ELSE IF ~OwnedBy(recs, file_id, user) THEN "UnauthorizedFileAccessError"
  ELSE IF ~recs[file_id].is_uploaded THEN "FileNotUploadedError"
  ELSE IF s3_key(file_id) \notin DOMAIN bl THEN "FileNotFoundError"
  ELSE "pass"

\* C19: a merge of two or more ids that ends with FileNotFoundError,
\* UnauthorizedFileAccessError or FileNotUploadedError ends on the first id
\* of the list that does not pass validation, with that id's error: not found
\* before not owned before not uploaded before blob missing.  A merge whose
\* list has such an id creates no placeholder, and when it ends without a
\* collaborator failure or cancellation it ends with that error.
C19_MergeValidatesInListOrder ==
  \A p \in Procs :
    LET c == call[p]
        v(i) == Validation(c.pre_records, c.pre_blobs, c.file_ids[i], c.requester)
        failing == {i \in 1..Len(c.file_ids) : v(i) # "pass"}
    IN (c.op = "merge_files" /\ Len(c.file_ids) >= 2) =>
       /\ (c.pc = "done" /\ c.outcome \in {"FileNotFoundError",
                                            "UnauthorizedFileAccessError",
                                            "FileNotUploadedError"})
            => /\ c.idx \in failing
               /\ \A i \in failing : c.idx <= i
               /\ c.outcome = v(c.idx)
       /\ failing # {}
            => /\ c.merged_file = NoFile
               /\ c.idx \in 1..Len(c.file_ids)
               /\ \A i \in failing : c.idx <= i
               /\ (c.pc = "done" /\ c.outcome \notin {"Exception", "CancelledError"})
                    => c.outcome = v(c.idx) /\ c.idx \in failing

\* a merge whose first id passed ended on its second id, a file marked
\* uploaded whose blob storage does not hold
C19_Witness ==
  \E p \in Procs :
    LET c == call[p] IN
    /\ MergeEnded(c) /\ c.outcome = "FileNotFoundError"
    /\ Len(c.file_ids) = 2 /\ c.idx = 2
    /\ Exists(records, c.file_ids[2])
    /\ records[c.file_ids[2]].is_uploaded
    /\ ~s3_file_exists(blobs, c.file_ids[2])

\* C20: a merge_files call that was not cancelled ends by returning the
\* merged file or by raising a domain error (the validation error, the three
\* file errors, FileMergeError); no exception of the repository, the storage
\* service or the merger leaves it as it was raised.
C20_MergeRaisesOnlyDomainErrors ==
  \A p \in Procs :
    (MergeEnded(call[p]) /\ call[p].outcome # "CancelledError")
    => call[p].outcome \in {"ok", "ValueError", "FileNotFoundError",
                            "UnauthorizedFileAccessError",
                            "FileNotUploadedError", "FileMergeError"}

\* the collaborator calls of frame c that went to the storage service
StorageCalls(c) ==
  {i \in 1..Len(c.log) :
     c.log[i][1] \in {"storage.upload_file", "storage.delete_file",
                      "storage.download_file", "storage.file_exists"}}

\* C21: upload_file_content by the owner of an existing file with a content
\* type other than application/pdf ends at once with the content-type
\* ValueError, has made no storage call, and leaves bucket and table as they
\* were.
C21_NonPdfUploadIsRejected ==
  \A p \in Procs :
    LET c == call[p] IN
    (/\ c.op = "upload_file_content"
     /\ OwnedBy(c.pre_records, c.file_id, c.requester)
     /\ c.content_type # "application/pdf")
    => /\ c.pc = "done" /\ c.outcome = "ValueError"
       /\ StorageCalls(c) = {}
       /\ blobs = c.pre_blobs
       /\ records = c.pre_records

\* the owner's text/plain upload to a file that already has content
C21_Witness ==
  \E p \in Procs :
    /\ call[p].op = "upload_file_content"
    /\ call[p].content_type = "text/plain"
    /\ OwnedBy(records, call[p].file_id, call[p].requester)
    /\ records[call[p].file_id].is_uploaded
    /\ call[p].outcome = "ValueError"

\* C22: upload_file_content of a PDF by the owner of a file that is already
\* uploaded is not refused: it ends with "ok" unless a collaborator fails or
\* the call is cancelled.  When it ends with "ok" the bucket holds the new
\* bytes under the key derived from the file_id, which is the key the row had
\* before and still has, and the row is still is_uploaded.
C22_ReuploadReplacesTheBlob ==
  \A p \in Procs :
    LET c == call[p]
        f == c.file_id
    IN (/\ c.op = "upload_file_content" /\ c.pc = "done"
        /\ OwnedBy(c.pre_records, f, c.requester)
        /\ c.pre_records[f].is_uploaded
        /\ c.content_type = "application/pdf")
       => /\ c.outcome \in {"ok", "Exception", "CancelledError"}
          /\ c.outcome = "ok"
               => /\ s3_key(f) \in DOMAIN blobs
                  /\ blobs[s3_key(f)] = c.content
                  /\ records[f].file_path = s3_key(f)
                  /\ records[f].file_path = c.pre_records[f].file_path
                  /\ records[f].is_uploaded
                  /\ c.result.file_path = s3_key(f) /\ c.result.is_uploaded

\* a second upload put other bytes in the place of the first
C22_Witness ==
  \E p \in Procs :
    LET c == call[p] IN
    /\ c.op = "upload_file_content" /\ c.pc = "done" /\ c.outcome = "ok"
    /\ Exists(c.pre_records, c.file_id)
    /\ c.pre_records[c.file_id].is_uploaded
    /\ s3_key(c.file_id) \in DOMAIN c.pre_blobs
    /\ c.pre_blobs[s3_key(c.file_id)] # c.content

\* C23: in a delete_file by the owner, the row is deleted only after the
\* storage delete when the file was uploaded, so a row that is gone leaves no
\* blob behind; no storage call is made when the file was not uploaded; and
\* when the storage delete fails the repository delete is not called and the
\* row stays as it was.
C23_DeleteBlobBeforeRecord ==
  \A p \in Procs :
    LET c == call[p]
        rowCalls == {i \in 1..Len(c.log) : c.log[i][1] = "repo.delete_file"}
    IN (c.op = "delete_file" /\ OwnedBy(c.pre_records, c.file_id, c.requester))
       => /\ c.pre_records[c.file_id].is_uploaded
               => /\ \A i \in rowCalls : \E j \in StorageCalls(c) :
                       j < i /\ c.log[j] = <<"storage.delete_file", c.file_id>>
                  /\ ~Exists(records, c.file_id)
                       => ~s3_file_exists(blobs, c.file_id)
          /\ ~c.pre_records[c.file_id].is_uploaded => StorageCalls(c) = {}
          /\ (/\ c.pc = "done" /\ c.outcome = "Exception"
               /\ c.log[Len(c.log)][1] = "storage.delete_file")
               => /\ rowCalls = {}
                  /\ records = c.pre_records

\* the storage delete of an uploaded file failed and its row is still there
C23_Witness ==
  \E p \in Procs :
    LET c == call[p] IN
    /\ c.op = "delete_file" /\ c.pc = "done" /\ c.outcome = "Exception"
    /\ c.log[Len(c.log)][1] = "storage.delete_file"
    /\ Exists(records, c.file_id) /\ records[c.file_id].is_uploaded
    /\ s3_file_exists(blobs, c.file_id)

\* C24: the step in which create_file returns gives a row owned by the
\* owner_external_id it was called with, not uploaded and without storage
\* key, stored under its file_id; that file_id is none that was handed out
\* before (every earlier id is below nextId) and none that will be handed
\* out again (nextId moves past it).
C24_CreateReturnsFreshUnuploadedRecord ==
  [][\A p \in Procs :
       (/\ call[p].op = "idle" /\ call'[p].op = "create_file"
        /\ call'[p].outcome = "ok")
       => LET r == call'[p].result IN
          /\ r.owner_external_id = call'[p].requester
          /\ ~r.is_uploaded
          /\ r.file_path = NoPath
          /\ r.file_id \notin DOMAIN records
          /\ \A f \in DOMAIN records : f < nextId
          /\ r.file_id >= nextId
          /\ nextId' > r.file_id
          /\ r.file_id \in DOMAIN records' /\ records'[r.file_id] = r
    ]_vars

\* a file created after the first file was deleted
C24_Witness ==
  \E p \in Procs :
    /\ call[p].op = "create_file" /\ call[p].outcome = "ok"
    /\ call[p].result.file_id = 2
    /\ ~Exists(records, 1)
    /\ Exists(records, 2) /\ ~records[2].is_uploaded

\* C25: the session a successful login returns is active, belongs to the
\* user whose username and password were given, carries a token under which
\* neither store held a session when the call began, is the session the
\* store now holds under that token, and has expires_at exactly
\* SessionLifetime after created_at.
C25_LoginCreatesFreshSession ==
  \A p \in Procs :
    LET c == auth[p]
        s == c.result_session
    IN (AuthEnded(c, "login") /\ c.outcome = "ok")
       => /\ s.is_active
          /\ \E i \in DOMAIN users :
               /\ users[i].id = s.user_id
               /\ users[i].username = c.username
               /\ users[i].password_hash = sha256_hexdigest(c.password)
          /\ s.token \notin DOMAIN c.pre_sessions
          /\ redis_key(s.token) \notin DOMAIN c.pre_redis
          /\ now < s.expires_at => get_session(s.token) = s
          /\ s.expires_at = s.created_at + SessionLifetime

\* ------------------------------------------- concurrent authentication calls
\* the caller's call is suspended at an await
Busy(p) == auth[p].op # "idle" /\ auth[p].pc # "done"

\* Two callers of the AuthenticationService with the clock standing still.
\* Caller 1 makes its calls one after the other; caller 2 makes a register,
\* logout or introspect call while a call of caller 1 is suspended, and
\* caller 1 makes its next call when caller 2's call has been taken.  The steps
\* of the two calls interleave in every order.
AuthConcNext ==
  \/ RegisterStart(1) \/ RegisterDraw(1) \/ RegisterCreate(1)
  \/ LoginStart(1) \/ LoginCreate(1) \/ LoginUser(1) \/ LoginSetex(1)
  \/ LogoutStart(1) \/ InvalidateWrite(1)
  \/ IntrospectStart(1) \/ IntrospectUser(1)
  \/ auth[2].op = "idle" /\ AuthReturn(1)
  \/ Busy(1) /\ RegisterStart(2)
  \/ Busy(1) /\ LogoutStart(2)
  \/ Busy(1) /\ IntrospectStart(2)
  \/ RegisterDraw(2) \/ RegisterCreate(2)
  \/ InvalidateWrite(2) \/ IntrospectUser(2)
  \/ AuthReturn(2)

AuthConcSpec == AuthInit /\ [][AuthConcNext]_vars

\* a row of the users table other than the one frame c's register created
\* has c's username or c's email
NameTaken(c) ==
  \E i \in DOMAIN users :
    /\ ~(c.outcome = "ok" /\ c.result_user.id = i)
    /\ (users[i].username = c.username \/ users[i].email = c.email)

\* C26: a register that ends while another user holds its username or its
\* email ends with UserAlreadyExistsError, also when that user was inserted
\* after the call's own existence check had passed.
C26_LostRegisterRaceIsUserAlreadyExists ==
  \A p \in Procs :
    (AuthEnded(auth[p], "register") /\ NameTaken(auth[p]))
    => auth[p].outcome = "UserAlreadyExistsError"

\* C27: a register whose username and email no other user holds ends with
\* "ok", whatever external_id another register drew at the same time, and two
\* registers that have both ended with "ok" returned different external_ids.
C27_SameCandidateIsTolerated ==
  /\ \A p \in Procs :
       (AuthEnded(auth[p], "register") /\ ~NameTaken(auth[p]))
       => auth[p].outcome = "ok"
  /\ \A p, q \in Procs :
       (/\ p # q
        /\ AuthEnded(auth[p], "register") /\ auth[p].outcome = "ok"
        /\ AuthEnded(auth[q], "register") /\ auth[q].outcome = "ok")
       => auth[p].result_user.external_id # auth[q].result_user.external_id

\* --------------------------------------------------- concurrent registers
\* Two callers that only register, interleaved as under AuthConcSpec.  The
\* event loop resumes every coroutine whose await has completed, so a
\* register that can take its next step does take it.
RegisterNext ==
  \/ RegisterStart(1) \/ RegisterDraw(1) \/ RegisterCreate(1)
  \/ auth[2].op = "idle" /\ AuthReturn(1)
  \/ Busy(1) /\ RegisterStart(2)
  \/ RegisterDraw(2) \/ RegisterCreate(2)
  \/ AuthReturn(2)

RegisterFairSpec ==
  /\ AuthInit
  /\ [][RegisterNext]_vars
  /\ WF_vars(RegisterDraw(1)) /\ WF_vars(RegisterCreate(1))
  /\ WF_vars(RegisterDraw(2)) /\ WF_vars(RegisterCreate(2))

\* every external_id create_with_external_id can draw is some user's
AllExternalIdsTaken ==
  \A r \in randbelow(MaxExternalId) : external_id_exists(users, r + 1)

\* C28: a register that is drawing external_ids while every candidate is
\* taken comes to an end.
C28_RegisterTerminatesWhenIdsExhausted ==
  \A p \in Procs :
    (auth[p].pc = "r_draw" /\ AllExternalIdsTaken) ~> (auth[p].pc = "done")

\* C29: with the clock standing still, let one caller log out of a token and
\* the other introspect it, both calls having begun on the active session, in
\* any interleaving.  The logout ends with "ok" and leaves no active session;
\* the introspect ends with the session's user or with InvalidSessionError;
\* and an introspect that begins when the session is no longer active does
\* not return a user.
C29_LogoutIntrospectRaceIsBenign ==
  /\ \A p, q \in Procs :
       LET l == auth[p]
           i == auth[q]
       IN (/\ l.op = "logout" /\ i.op = "introspect" /\ l.token = i.token
           /\ ActiveAtStart(l) /\ ActiveAtStart(i))
          => /\ l.pc = "done" => l.outcome = "ok" /\ ~SessionActive(l.token)
             /\ i.pc = "done"
                  => \/ i.outcome = "InvalidSessionError"
                     \/ /\ i.outcome = "ok"
                        /\ i.result_user.id = i.pre_session.user_id
                        /\ i.result_user.id \in DOMAIN users
                        /\ i.result_user = UserEntity(users[i.result_user.id])
  /\ \A q \in Procs :
       (auth[q].op = "introspect" /\ ~ActiveAtStart(auth[q]))
       => auth[q].outcome # "ok"

\* the logout overtook the introspect: both began on the active session, the
\* logout succeeded and the introspect was refused
C29_Witness ==
  \E p, q \in Procs :
    /\ AuthEnded(auth[p], "logout") /\ AuthEnded(auth[q], "introspect")
    /\ auth[p].token = auth[q].token
    /\ ActiveAtStart(auth[p]) /\ ActiveAtStart(auth[q])
    /\ auth[p].outcome = "ok"
    /\ auth[q].outcome = "InvalidSessionError"

\* Two callers of the FileService.  Caller 1 creates, uploads and merges;
\* caller 2 starts merges, and only while caller 1 is inside a merge, so that
\* every merge of caller 2 overlaps one of caller 1 and nothing but merges run
\* side by side.
MergeConcNext ==
  \/ CreateFile(1)
  \/ UploadStart(1) \/ UploadPut(1) \/ UploadUpdate(1)
  \/ MergeStart(1) \/ MergeExists(1) \/ MergeGet(1) \/ MergeCreate(1)
  \/ MergeDownload(1) \/ MergeUpload(1) \/ MergeUpdate(1) \/ MergeCleanup(1)
  \/ call[2].op = "idle" /\ Return(1)
  \/ (call[1].op = "merge_files" /\ call[1].pc # "done") /\ MergeStart(2)
  \/ MergeExists(2) \/ MergeGet(2) \/ MergeCreate(2)
  \/ MergeDownload(2) \/ MergeUpload(2) \/ MergeUpdate(2) \/ MergeCleanup(2)
  \/ Return(2)

MergeConcSpec == Init /\ [][MergeConcNext]_vars

\* a merge whose list, when the call began, had two or more ids, each owned
\* by the requester, uploaded and stored as a PDF
ValidAtStart(c) ==
  /\ c.op = "merge_files"
  /\ Len(c.file_ids) >= 2
  /\ \A i \in 1..Len(c.file_ids) :
       /\ Validation(c.pre_records, c.pre_blobs, c.file_ids[i], c.requester) = "pass"
       /\ IsPdf(c.pre_blobs[s3_key(c.file_ids[i])])

\* the merges of the two callers are by one owner and share a source file
SharedSource(c, d) ==
  /\ c.requester = d.requester
  /\ \E i \in 1..Len(c.file_ids), j \in 1..Len(d.file_ids) :
       c.file_ids[i] = d.file_ids[j]

\* the bytes a merge of these ids produces from the blobs bl
MergedBytes(file_ids, bl) ==
  Combine([i \in 1..Len(file_ids) |-> s3_download_file(bl, file_ids[i])])

\* C30: two merges by one owner that run side by side on lists valid when
\* each began and sharing a source.  At every point of each merge every
\* source has the row and the blob it had when the merge began, the id the
\* placeholder will take is free, and once created the placeholder row is as
\* the merge created it: so only a collaborator failure stops a merge, and a
\* merge that ends does so with "ok", or with Exception or FileMergeError after
\* a failed collaborator call.  A merge that ends "ok" returns a file whose
\* id no row had when it began, stored as returned, with the bytes of its own
\* sources in list order; and two that end "ok" return different file_ids.
C30_ConcurrentMergesAreIndependent ==
  \A p, q \in Procs :
    LET c == call[p]
        d == call[q]
    IN (p # q /\ ValidAtStart(c) /\ ValidAtStart(d) /\ SharedSource(c, d))
       => /\ \A i \in 1..Len(c.file_ids) :
               /\ repo_get_file_by_id(records, c.file_ids[i])
                    = repo_get_file_by_id(c.pre_records, c.file_ids[i])
               /\ BlobOf(blobs, c.file_ids[i]) = BlobOf(c.pre_blobs, c.file_ids[i])
          /\ c.pc = "m_create" => nextId \notin DOMAIN records
          /\ c.pc \in {"m_download", "m_upload", "m_update"}
               => /\ c.merged_file.file_id \in DOMAIN records
                  /\ records[c.merged_file.file_id] = c.merged_file
                  /\ c.merged_file.file_id # d.merged_file.file_id
          /\ c.pc = "done"
               => /\ c.outcome \in {"ok", "Exception", "FileMergeError"}
                  /\ c.outcome = "FileMergeError"
                       => c.failed_step \in {"download", "upload", "update"}
                  /\ c.outcome = "Exception"
                       => c.log[Len(c.log)][1] \in {"storage.file_exists",
                                                    "repo.create_file",
                                                    "repo.delete_file"}
          /\ (c.pc = "done" /\ c.outcome = "ok")
               => /\ c.result.file_id \notin DOMAIN c.pre_records
                  /\ c.result.file_id \in DOMAIN records
                  /\ records[c.result.file_id] = c.result
                  /\ c.result.is_uploaded
                  /\ c.result.owner_external_id = c.requester
                  /\ BlobOf(blobs, c.result.file_id)
                       = <<TRUE, MergedBytes(c.file_ids, c.pre_blobs)>>
                  /\ (d.pc = "done" /\ d.outcome = "ok")
                       => c.result.file_id # d.result.file_id

\* both merges have succeeded on different lists with a common source; the
\* merge that began second created its placeholder first
C30_Witness ==
  /\ ValidAtStart(call[1]) /\ ValidAtStart(call[2])
  /\ SharedSource(call[1], call[2])
  /\ call[1].pc = "done" /\ call[1].outcome = "ok"
  /\ call[2].pc = "done" /\ call[2].outcome = "ok"
  /\ call[2].result.file_id < call[1].result.file_id
  /\ call[1].file_ids # call[2].file_ids

\* the storage downloads a call has made, in the order it made them
IsDownload(entry) == entry[1] = "storage.download_file"
Downloads(c) == SelectSeq(c.log, IsDownload)

\* the positions in a call's log of the calls to one collaborator method
LogPositions(c, method) == {i \in 1..Len(c.log) : c.log[i][1] = method}

\* C31: at every point of a merge, the downloads made so far are of the
\* first ids of the input list, one per entry and in list order; the streams
\* given to the merger are the blobs of those entries, in the same order;
\* every download comes after the placeholder's create_file and before the
\* upload, which is made only when every entry was downloaded and appended;
\* and the bytes uploaded are the merger's output for the streams in that
\* order.
C31_MergeDownloadsInListOrder ==
  \A p \in Procs :
    LET c == call[p]
        n == Len(Downloads(c))
    IN c.op = "merge_files" =>
       /\ n <= Len(c.file_ids)
       /\ \A i \in 1..n : Downloads(c)[i][2] = c.file_ids[i]
       /\ Len(c.streams) <= n
       /\ \A i \in 1..Len(c.streams) :
            c.streams[i] = s3_download_file(c.pre_blobs, c.file_ids[i])
       /\ \A i \in LogPositions(c, "storage.download_file") :
            /\ \E j \in LogPositions(c, "repo.create_file") : j < i
            /\ \A k \in LogPositions(c, "storage.upload_file") : i < k
       /\ LogPositions(c, "storage.upload_file") # {}
            => n = Len(c.file_ids) /\ Len(c.streams) = n
       /\ (c.pc = "done" /\ c.outcome = "ok")
            => /\ LogPositions(c, "storage.upload_file") # {}
               /\ s3_download_file(blobs, c.result.file_id) = Combine(c.streams)

\* a merge of two files listed against the order of their creation has
\* succeeded
C31_Witness ==
  \E p \in Procs :
    /\ MergeEnded(call[p]) /\ call[p].outcome = "ok"
    /\ Len(call[p].file_ids) = 2
    /\ call[p].file_ids[1] > call[p].file_ids[2]
    /\ Len(Downloads(call[p])) = 2

\* C32: a step after which a token's session is no longer active, having
\* been active before it, is the write of a logout of that token, or the
\* write of an introspect of that token that read a clock later than the
\* session's expires_at.  No other step of register, login, introspect, the
\* FileService or the clock ends a session's being active.
C32_OnlyLogoutAndLateIntrospectDeactivate ==
  [][\A t \in Tokens :
       (SessionActive(t) /\ ~SessionActive(t)')
       => \E p \in Procs :
            /\ auth[p].token = t
            /\ auth[p].pc = "inv_write" /\ auth'[p].pc = "done"
            /\ \/ auth[p].op = "logout"
               \/ /\ auth[p].op = "introspect"
                  /\ auth[p].utcnow > auth[p].session.expires_at
    ]_vars

\* ------------------------------------------------- the merged file's name
\* Names of source files: shorter than, exactly, and longer than ten characters
NameInputs == {"a", "abcdefghij", "abcdefghijkl"}

\* the most sources a merge is given here
MaxSources == 5

NameLists == UNION {[1..n -> NameInputs] : n \in 2..MaxSources}

\* an uploaded file of user 1 under each name, as create_file and
\* upload_file_content leave them
NamedRecords(names) ==
  [i \in 1..Len(names) |->
     [file_id |-> i, name |-> names[i], amount_of_pages |-> 3,
      description |-> "", file_path |-> s3_key(i), is_uploaded |-> TRUE,
      owner_external_id |-> 1]]

NamedBlobs(names) ==
  [k \in {s3_key(i) : i \in 1..Len(names)} |-> <<"A">>]

\* merge_files of all of them in the order of their ids, at the end of its
\* validation loop
NamedMerge(names) ==
  LET n == Len(names) IN
  [Begin("merge_files") EXCEPT
     !.pc = "m_create",
     !.file_ids = [i \in 1..n |-> i],
     !.requester = 1,
     !.idx = 1,
     !.file_entity = NamedRecords(names)[n],
     !.files_to_merge = NamedRecords(names),
     !.total_pages = 3 * n,
     !.log = [i \in 1..(2 * n) |->
                IF i % 2 = 1 THEN <<"repo.get_file_by_id", (i + 1) \div 2>>
                             ELSE <<"storage.file_exists", i \div 2>>],
     !.pre_records = NamedRecords(names),
     !.pre_blobs = NamedBlobs(names)]

NameInit ==
  \E names \in NameLists :
    /\ records = NamedRecords(names)
    /\ blobs = NamedBlobs(names)
    /\ nextId = Len(names) + 1
    /\ call = [p \in Procs |-> IF p = 1 THEN NamedMerge(names) ELSE IdleCall]
    /\ users = <<>>
    /\ sessions = <<>>
    /\ redis = <<>>
    /\ now = 0
    /\ session_store = "redis"
    /\ nextUserId = 1
    /\ nextToken = 1
    /\ auth = [p \in Procs |-> IdleAuth]

\* the merge from the placeholder's creation to its end
NameNext ==
  \/ MergeCreate(1) \/ MergeDownload(1) \/ MergeUpload(1)
  \/ MergeUpdate(1) \/ MergeCleanup(1)

NameSpec == NameInit /\ [][NameNext]_vars

\* the first ten characters of a name
First10(name) == IF Len(name) <= 10 THEN name ELSE SubSeq(name, 1, 10)

\* C33: the placeholder a merge of n sources creates is named "merged_"
\* followed by the first ten characters of the first, second and (when there
\* is one) third source name, in list order and joined by "_", followed by
\* "_and_<n - 3>_more" exactly when n > 3; its description is
\* "Merged from <n> files"; the stored row carries both.
C33_MergedNameFromFirstThreeSources ==
  \A p \in Procs :
    LET c == call[p]
        n == Len(c.files_to_merge)
        src(i) == First10(c.files_to_merge[i].name)
    IN (c.op = "merge_files" /\ c.merged_file # NoFile)
       => /\ c.merged_file.name
               = "merged_" \o src(1) \o "_" \o src(2)
                   \o (IF n >= 3 THEN "_" \o src(3) ELSE "")
                   \o (IF n > 3 THEN "_and_" \o ToString(n - 3) \o "_more"
                                ELSE "")
          /\ c.merged_file.description
               = "Merged from " \o ToString(n) \o " files"
          /\ (c.pc = "done" /\ c.outcome = "ok")
               => /\ c.result.name = c.merged_file.name
                  /\ c.result.description = c.merged_file.description
                  /\ records[c.result.file_id].name = c.result.name
                  /\ records[c.result.file_id].description = c.result.description

\* five sources, the first longer than ten characters: the name is cut and
\* counts two more
C33_Witness ==
  \E p \in Procs :
    /\ MergeEnded(call[p]) /\ call[p].outcome = "ok"
    /\ Len(call[p].files_to_merge) = 5
    /\ call[p].files_to_merge[1].name = "abcdefghijkl"
    /\ call[p].files_to_merge[2].name = "a"
    /\ call[p].result.name = "merged_abcdefghij_a_abcdefghij_and_2_more"

\* -------------------------------------------------- app/files/api/router
\* The status code each endpoint answers with when the service call it made
\* ends with outcome: its except clauses in the order they are written.
\* CancelledError is no Exception, so no clause catches it and no response is
\* made (0).
get_file_endpoint(outcome) ==
  IF outcome = "ok" THEN 200
  ELSE IF outcome = "FileNotFoundError" THEN 404
  ELSE IF outcome = "UnauthorizedFileAccessError" THEN 401
  ELSE IF outcome = "CancelledError" THEN 0
  ELSE 500

upload_file_content_endpoint(outcome) ==
  IF outcome = "ok" THEN 200
  ELSE IF outcome = "FileNotFoundError" THEN 404
  ELSE IF outcome = "UnauthorizedFileAccessError" THEN 401
  ELSE IF outcome = "ValueError" THEN 400
  ELSE IF outcome = "CancelledError" THEN 0
  ELSE 500

delete_file_endpoint(outcome) ==
  IF outcome = "ok" THEN 200
  ELSE IF outcome = "FileNotFoundError" THEN 404
  ELSE IF outcome = "UnauthorizedFileAccessError" THEN 401
  ELSE IF outcome = "CancelledError" THEN 0
  ELSE 500

\* 404 if isinstance(e, FileNotFoundError) else 400
merge_files_endpoint(outcome) ==
  IF outcome = "ok" THEN 200
  ELSE IF outcome \in {"FileNotFoundError", "FileNotUploadedError",
                       "UnauthorizedFileAccessError"}
       THEN IF outcome = "FileNotFoundError" THEN 404 ELSE 400
  ELSE IF outcome = "ValueError" THEN 400
  ELSE IF outcome = "FileMergeError" THEN 500
  ELSE IF outcome = "CancelledError" THEN 0
  ELSE 500

create_file_endpoint(outcome) ==
  IF outcome = "ok" THEN 201
  ELSE IF outcome = "CancelledError" THEN 0
  ELSE 500

get_files_endpoint(outcome) ==
  IF outcome = "ok" THEN 200
  ELSE IF outcome = "CancelledError" THEN 0
  ELSE 500

\* the endpoint that calls the service method op
router_status(op, outcome) ==
  CASE op = "get_file" -> get_file_endpoint(outcome)
    [] op = "get_user_files" -> get_files_endpoint(outcome)
    [] op = "upload_file_content" -> upload_file_content_endpoint(outcome)
    [] op = "delete_file" -> delete_file_endpoint(outcome)
    [] op = "merge_files" -> merge_files_endpoint(outcome)
    [] op = "create_file" -> create_file_endpoint(outcome)

\* the endpoints that take a file id from the caller
FileIdEndpoints ==
  {"get_file", "upload_file_content", "delete_file", "merge_files"}

\* C34: when a call of get, upload, delete or merge ends with
\* FileNotFoundError or UnauthorizedFileAccessError, its endpoint answers with
\* the status the get endpoint gives that error.
C34_OneStatusPerDomainError ==
  \A p \in Procs :
    LET c == call[p] IN
    (/\ c.pc = "done" /\ c.op \in FileIdEndpoints
     /\ c.outcome \in {"FileNotFoundError", "UnauthorizedFileAccessError"})
    => router_status(c.op, c.outcome) = router_status("get_file", c.outcome)

\* C35: a merge that ends with ValueError, FileNotFoundError,
\* UnauthorizedFileAccessError or FileNotUploadedError has created no
\* placeholder, has called neither create_file nor a storage write, and
\* leaves the files table and the bucket exactly as they were when it began.
C35_FailedValidationChangesNothing ==
  \A p \in Procs :
    LET c == call[p] IN
    (/\ MergeEnded(c)
     /\ c.outcome \in {"ValueError", "FileNotFoundError",
                        "UnauthorizedFileAccessError", "FileNotUploadedError"})
    => /\ c.merged_file = NoFile
       /\ records = c.pre_records
       /\ blobs = c.pre_blobs
       /\ \A i \in 1..Len(c.log) :
            c.log[i][1] \in {"repo.get_file_by_id", "storage.file_exists"}

\* a merge refused at its second id, which was never uploaded, after the
\* first id passed both tests
C35_Witness ==
  \E p \in Procs :
    /\ MergeEnded(call[p])
    /\ call[p].outcome = "FileNotUploadedError"
    /\ Len(call[p].files_to_merge) = 1
    /\ call[p].file_ids[1] # call[p].file_ids[2]
    /\ call[p].pre_blobs # <<>>

\* C36: of two logout calls on one token that run side by side, at most one
\* ends with "ok"; when one does, the other ends with SessionNotFoundError.
C36_OneOfTwoLogoutsSucceeds ==
  \A p, q \in Procs :
    (/\ p # q
     /\ AuthEnded(auth[p], "logout") /\ AuthEnded(auth[q], "logout")
     /\ auth[p].token = auth[q].token
     /\ auth[p].outcome = "ok")
    => auth[q].outcome = "SessionNotFoundError"

\* C37: when a merge that created its placeholder has ended with an error,
\* the bucket holds no object under the key of the placeholder's file_id.
\* Cancellation is C3's case and is left out here.
C37_FailedMergeLeavesNoMergedBlob ==
  \A p \in Procs :
    LET c == call[p] IN
    (/\ MergeEnded(c) /\ c.merged_file # NoFile
     /\ c.outcome \notin {"ok", "CancelledError"})
    => s3_key(c.merged_file.file_id) \notin DOMAIN blobs

\* Two callers of the FileService.  Caller 1 creates (one file fewer than
\* the bound allows) and uploads; caller 2 deletes, and starts a delete only
\* while caller 1 is inside an upload.
UploadDeleteNext ==
  \/ nextId < MaxFiles /\ CreateFile(1)
  \/ UploadStart(1) \/ UploadPut(1) \/ UploadUpdate(1)
  \/ call[2].op = "idle" /\ Return(1)
  \/ (call[1].op = "upload_file_content" /\ call[1].pc # "done")
       /\ DeleteStart(2)
  \/ DeleteBlob(2) \/ DeleteRow(2)
  \/ Return(2)

UploadDeleteSpec == Init /\ [][UploadDeleteNext]_vars

\* C38: at the step by which an upload or a merge returns a file with
\* is_uploaded true, the files table holds a row under the file_id that is
\* marked uploaded and carries the returned storage key, whatever a delete
\* running beside it has done; and after every step each object in the
\* bucket is stored under the key of a file_id that has a row.
C38_ReturnedUploadHasItsRecord ==
  [][/\ \A p \in Procs :
          (/\ call[p].pc # "done" /\ call'[p].pc = "done"
           /\ call'[p].op \in {"upload_file_content", "merge_files"}
           /\ call'[p].outcome = "ok" /\ call'[p].result.is_uploaded)
          => /\ call'[p].result.file_id \in DOMAIN records'
             /\ records'[call'[p].result.file_id].is_uploaded
             /\ records'[call'[p].result.file_id].file_path
                  = call'[p].result.file_path
     /\ \A k \in DOMAIN blobs' : \E f \in DOMAIN records' : k = s3_key(f)
    ]_vars

\* C39: the write by which a logout, or an introspect that found its session
\* expired, invalidates a token leaves the session stored under every other
\* token as it was; and an introspect of another token that follows, begun
\* on an active session before its expires_at and run with the clock standing
\* still, returns that session's user.
C39_SessionsAreIndependent ==
  [][\A p \in Procs :
       /\ (auth[p].pc = "inv_write" /\ auth'[p].pc = "done")
          => \A t \in Tokens \ {auth[p].token} : get_session(t)' = get_session(t)
       /\ (/\ auth[p].pc # "done" /\ AuthEnded(auth'[p], "introspect")
           /\ auth'[p].prev.op \in {"logout", "introspect"}
           /\ auth'[p].prev.token # auth'[p].token
           /\ ActiveAtStart(auth'[p])
           /\ auth'[p].pre_now <= auth'[p].pre_session.expires_at
           /\ now' = auth'[p].pre_now)
          => /\ auth'[p].outcome = "ok"
             /\ auth'[p].result_user.id = auth'[p].pre_session.user_id
    ]_vars

\* the only user holds two sessions; after the logout of one, the introspect
\* of the other has returned the user
C39_Witness ==
  \E p \in Procs :
    /\ AuthEnded(auth[p], "introspect")
    /\ auth[p].outcome = "ok"
    /\ auth[p].prev.op = "logout"
    /\ auth[p].prev.token # auth[p].token
    /\ DOMAIN users = {1}
    /\ nextToken = 3
    /\ ~SessionActive(auth[p].prev.token)
    /\ SessionActive(auth[p].token)

\* C40: get_user_files returns just the rows of the files table whose owner
\* is the external id asked for, each once and none of another owner; it
\* returns nothing when no user has that external id; and it leaves the
\* files table and the bucket as they were.
C40_ListReturnsTheOwnersFiles ==
  \A p \in Procs :
    LET c == call[p] IN
    (c.op = "get_user_files" /\ c.pc = "done")
    => /\ c.outcome = "ok"
       /\ \A f \in DOMAIN c.pre_records :
            (c.pre_records[f] \in c.files)
              = (c.pre_records[f].owner_external_id = c.requester)
       /\ \A e \in c.files :
            /\ e.file_id \in DOMAIN c.pre_records
            /\ c.pre_records[e.file_id] = e
       /\ c.requester \notin Users => c.files = {}
       /\ records = c.pre_records
       /\ blobs = c.pre_blobs

\* user 1 has listed two files of theirs while user 2 owns a file as well
C40_Witness ==
  \E p \in Procs :
    /\ call[p].op = "get_user_files" /\ call[p].pc = "done"
    /\ call[p].requester = 1
    /\ Cardinality(call[p].files) = 2
    /\ \E f \in DOMAIN records : records[f].owner_external_id = 2

====
